---- MODULE Spec2Model ----
(***************************************************************************)
(* A model of the vat-validator library: the per-country VAT rules of      *)
(* vat_validator/countries.py, the registry EU_RULES, the public functions *)
(* of vat_validator/utils.py, the sanitizers of                            *)
(* vat_validator/sanitizers.py, the validators of                          *)
(* vat_validator/validators.py and the VIES lookup of                      *)
(* vat_validator/vies.py.                                                  *)
(*                                                                         *)
(* A Python string is a sequence of characters; a character is a one-      *)
(* character TLA+ string, except the superscript two (U+00B2), written     *)
(* "^2".  A call either returns a value or raises an exception.            *)
(***************************************************************************)
EXTENDS Integers, Sequences, FiniteSets, TLC

VARIABLES pc, call, outcome, evaluated, requests, rules, codes, previous, calls,
          threads, frames

vars == <<pc, call, outcome, evaluated, requests, rules, codes, previous, calls,
          threads, frames>>

-----------------------------------------------------------------------------
(* Characters and the Python predicates on them.                           *)

UpperSeq == <<"A","B","C","D","E","F","G","H","I","J","K","L","M",
              "N","O","P","Q","R","S","T","U","V","W","X","Y","Z">>

LowerSeq == <<"a","b","c","d","e","f","g","h","i","j","k","l","m",
              "n","o","p","q","r","s","t","u","v","w","x","y","z">>

DigitSeq == <<"0","1","2","3","4","5","6","7","8","9">>

UpperLetters == {UpperSeq[i] : i \in 1..26}

LowerLetters == {LowerSeq[i] : i \in 1..26}

DecimalDigits == {DigitSeq[i] : i \in 1..10}

\* U+00B2: str.isdigit() and \w accept it, \d and int() do not.
SuperscriptTwo == "^2"

\* The characters \s matches.
Whitespace == {" ", "\n"}

\* Characters \W matches that are not whitespace.
Punctuation == {"-", ".", "+", "*"}

\* \w: what str.isalnum() accepts, and the underscore.
IsWordChar(c) == c \in UpperLetters \cup LowerLetters \cup DecimalDigits
                       \cup {"_", SuperscriptTwo}

\* str.upper() of one character; re.I compares letters through it.
ToUpper(c) == IF c \in LowerLetters
              THEN UpperSeq[CHOOSE i \in 1..26 : LowerSeq[i] = c]
              ELSE c

\* str.lower() of one character.
ToLower(c) == IF c \in UpperLetters
              THEN LowerSeq[CHOOSE i \in 1..26 : UpperSeq[i] = c]
              ELSE c

\* The position of an upper-case letter in the alphabet, from 0: ord(c) - 65.
LetterIndex(c) == (CHOOSE i \in 1..26 : UpperSeq[i] = c) - 1

\* int() of one decimal digit.
DigitVal(c) == (CHOOSE i \in 1..10 : DigitSeq[i] = c) - 1

\* str.isdigit(): not empty and every character a digit (U+00B2 is one).
isdigit(s) == Len(s) > 0
              /\ \A i \in 1..Len(s) : s[i] \in DecimalDigits \cup {SuperscriptTwo}

\* str.isalpha().
isalpha(s) == Len(s) > 0
              /\ \A i \in 1..Len(s) : s[i] \in UpperLetters \cup LowerLetters

\* Whether int(s) returns: it raises ValueError on anything but decimal digits.
IntParses(s) == Len(s) > 0 /\ \A i \in 1..Len(s) : s[i] \in DecimalDigits

\* \d{n} matched against the whole of s.
AllDigits(s, n) == Len(s) = n /\ \A i \in 1..n : s[i] \in DecimalDigits

\* s[n:]
Drop(s, n) == SubSeq(s, n + 1, Len(s))

\* s[:n]
Take(s, n) == SubSeq(s, 1, n)

\* int(s) of a string of decimal digits.
RECURSIVE int(_)
int(s) == IF Len(s) = 0 THEN 0
          ELSE 10 * int(Take(s, Len(s) - 1)) + DigitVal(s[Len(s)])

\* int(s) % m, for numbers of ten digits and more.
RECURSIVE IntMod(_, _)
IntMod(s, m) == IF Len(s) = 0 THEN 0
                ELSE (10 * IntMod(Take(s, Len(s) - 1), m) + DigitVal(s[Len(s)])) % m

\* sum(w * int(ch) for w, ch in zip(weights, code))
RECURSIVE WeightedSum(_, _)
WeightedSum(weights, code) ==
    IF Len(weights) = 0 \/ Len(code) = 0 THEN 0
    ELSE weights[1] * DigitVal(code[1]) + WeightedSum(Drop(weights, 1), Drop(code, 1))

\* A call's outcome: the value returned, or the exception raised.
Return(v) == [kind |-> "return", value |-> v]

Raise(e) == [kind |-> "raise", value |-> e]

-----------------------------------------------------------------------------
(* Country codes, as Python strings.                                       *)

AT == <<"A","T">>
BE == <<"B","E">>
BG == <<"B","G">>
HR == <<"H","R">>
CY == <<"C","Y">>
CZ == <<"C","Z">>
DE == <<"D","E">>
DK == <<"D","K">>
EE == <<"E","E">>
EL == <<"E","L">>
ES == <<"E","S">>
FI == <<"F","I">>
FR == <<"F","R">>
GB == <<"G","B">>
HU == <<"H","U">>
IE == <<"I","E">>
IT == <<"I","T">>
LT == <<"L","T">>
LU == <<"L","U">>
LV == <<"L","V">>
MT == <<"M","T">>
NL == <<"N","L">>
PL == <<"P","L">>
PT == <<"P","T">>
RO == <<"R","O">>
SE == <<"S","E">>
SI == <<"S","I">>
SK == <<"S","K">>
SL == <<"S","L">>
GR == <<"G","R">>
ZZ == <<"Z","Z">>

-----------------------------------------------------------------------------
(* Sanitization inside the rules: re.sub(r"(^XX)|\s*|\W*", "", vat, re.I). *)

\* Whether vat starts with prefix, letters compared without case (re.I).
StartsWithI(vat, prefix) ==
    Len(vat) >= Len(prefix)
    /\ \A i \in 1..Len(prefix) : ToUpper(vat[i]) = prefix[i]

\* Whether vat starts with prefix, case sensitive.
StartsWith(vat, prefix) ==
    Len(vat) >= Len(prefix) /\ \A i \in 1..Len(prefix) : vat[i] = prefix[i]

\* re.sub of the alternation (^P1)|(^P2)|...|\s*|\W* with re.I: a prefix is
\* removed only where it starts the raw string; every run of non-word
\* characters is removed wherever it is; word characters stay.
re_sub(prefixes, vat) ==
    LET anchored == \E k \in 1..Len(prefixes) : StartsWithI(vat, prefixes[k])
        rest == IF anchored THEN Drop(vat, 2) ELSE vat
    IN SelectSeq(rest, IsWordChar)

-----------------------------------------------------------------------------
(* The rules of countries.py that sanitize their input with re.sub.        *)

\* validate_vat_at.calc_check_digit
calc_check_digit_at(code) ==
    LET c2 == DigitVal(code[1])
        c3 == DigitVal(code[2])
        c4 == DigitVal(code[3])
        c5 == DigitVal(code[4])
        c6 == DigitVal(code[5])
        c7 == DigitVal(code[6])
        c8 == DigitVal(code[7])
        s3 == (c3 \div 5) + ((c3 * 2) % 10)
        s5 == (c5 \div 5) + ((c5 * 2) % 10)
        s7 == (c7 \div 5) + ((c7 * 2) % 10)
    IN (10 - ((s3 + s5 + s7 + c2 + c4 + c6 + c8 + 4) % 10)) % 10

validate_vat_at(vat) ==
    LET sanitized_vat == re_sub(<<AT>>, vat) IN
    IF Len(sanitized_vat) # 9 THEN Return(FALSE)
    ELSE IF sanitized_vat[1] # "U" /\ sanitized_vat[1] # "u" THEN Return(FALSE)
    ELSE IF ~isdigit(Drop(sanitized_vat, 1)) THEN Return(FALSE)
    ELSE IF ~IntParses(Drop(sanitized_vat, 1)) THEN Raise("ValueError")
    ELSE Return(calc_check_digit_at(SubSeq(sanitized_vat, 2, 8))
                  = DigitVal(sanitized_vat[9]))

validate_vat_be(vat) ==
    LET raw == re_sub(<<BE>>, vat)
        \* the old format of nine digits is converted to the new one
        sanitized_vat == IF Len(raw) = 9 THEN <<"0">> \o raw ELSE raw
    IN
    IF Len(sanitized_vat) # 10 THEN Return(FALSE)
    ELSE IF ~isdigit(sanitized_vat) THEN Return(FALSE)
    ELSE IF sanitized_vat[1] # "0" \/ sanitized_vat[2] = "0" THEN Return(FALSE)
    ELSE IF ~IntParses(sanitized_vat) THEN Raise("ValueError")
    ELSE Return(97 - (int(Take(sanitized_vat, 8)) % 97)
                  = int(Drop(sanitized_vat, 8)))

\* validate_vat_bg.calc_check_digit_legal_entity
calc_check_digit_legal_entity(code) ==
    LET first == WeightedSum(<<1, 2, 3, 4, 5, 6, 7, 8>>, code) % 11
        check_digit == IF first = 10
                       THEN WeightedSum(<<3, 4, 5, 6, 7, 8, 9, 10>>, code) % 11
                       ELSE first
    IN check_digit % 10

\* validate_vat_bg.calc_check_digit_person
calc_check_digit_person(code) ==
    (WeightedSum(<<2, 4, 8, 5, 10, 9, 7, 3, 6>>, code) % 11) % 10

\* validate_vat_bg.calc_check_digit_foreigner
calc_check_digit_foreigner(code) ==
    WeightedSum(<<21, 19, 17, 13, 11, 9, 7, 3, 1>>, code) % 10

\* validate_vat_bg.calc_check_digit_misc; -1 stands for None, equal to no digit.
calc_check_digit_misc(code) ==
    LET check_digit == 11 - (WeightedSum(<<4, 3, 2, 7, 6, 5, 4, 3, 2>>, code) % 11)
    IN IF check_digit = 11 THEN 0
       ELSE IF check_digit = 10 THEN -1
       ELSE check_digit

\* validate_vat_bg: whether the ten digits are the number of a physical
\* person, the check digit and the date of birth embedded in the number.
is_person_bg(sanitized_vat) ==
    LET check_digit_person == calc_check_digit_person(Take(sanitized_vat, 9))
        year_is_valid == int(SubSeq(sanitized_vat, 1, 2)) \in 0..99
        month_is_valid == int(SubSeq(sanitized_vat, 3, 4)) \in 1..40
        day_is_valid == int(SubSeq(sanitized_vat, 5, 6)) \in 1..30
        date_is_valid == year_is_valid /\ month_is_valid /\ day_is_valid
    IN check_digit_person = DigitVal(sanitized_vat[10]) /\ date_is_valid

validate_vat_bg(vat) ==
    LET sanitized_vat == re_sub(<<BG>>, vat)
        last == DigitVal(sanitized_vat[Len(sanitized_vat)])
    IN
    IF ~isdigit(sanitized_vat) THEN Return(FALSE)
    ELSE IF Len(sanitized_vat) = 9 THEN
        IF ~IntParses(sanitized_vat) THEN Raise("ValueError")
        ELSE Return(calc_check_digit_legal_entity(Take(sanitized_vat, 8)) = last)
    ELSE IF Len(sanitized_vat) = 10 THEN
        IF ~IntParses(sanitized_vat) THEN Raise("ValueError")
        ELSE
          LET is_person == is_person_bg(sanitized_vat)
              is_foreigner == calc_check_digit_foreigner(Take(sanitized_vat, 9)) = last
              is_miscellaneous == calc_check_digit_misc(Take(sanitized_vat, 9)) = last
          IN Return(is_person \/ is_foreigner \/ is_miscellaneous)
    ELSE Return(FALSE)

\* validate_vat_cy.calc_check_char, as the index of the letter: chr(65 + index)
calc_check_char(code) ==
    LET key == <<1, 0, 5, 7, 9, 13, 15, 17, 19, 21>>
        odd == DigitVal(code[2]) + DigitVal(code[4]) + DigitVal(code[6]) + DigitVal(code[8])
        even == key[DigitVal(code[1]) + 1] + key[DigitVal(code[3]) + 1]
                + key[DigitVal(code[5]) + 1] + key[DigitVal(code[7]) + 1]
    IN UpperSeq[((odd + even) % 26) + 1]

validate_vat_cy(vat) ==
    LET sanitized_vat == re_sub(<<CY>>, vat)
        n == Len(sanitized_vat)
    IN
    IF ~isdigit(Take(sanitized_vat, n - 1)) THEN Return(FALSE)
    ELSE IF ~isalpha(<<sanitized_vat[n]>>) THEN Return(FALSE)
    ELSE IF n # 9 THEN Return(FALSE)
    ELSE IF SubSeq(sanitized_vat, 1, 2) = <<"1", "2">> THEN Return(FALSE)
    ELSE IF ~IntParses(Take(sanitized_vat, 8)) THEN Raise("ValueError")
    ELSE Return(calc_check_char(Take(sanitized_vat, 8)) = sanitized_vat[9])

\* validate_vat_dk.checksum reduced modulo 10 instead of 11.
checksum_dk_mod10(code) == WeightedSum(<<2, 7, 6, 5, 4, 3, 2, 1>>, code) % 10

\* validate_vat_dk.checksum with one weight too few: the last digit is left out.
checksum_dk_short(code) == WeightedSum(<<2, 7, 6, 5, 4, 3, 2>>, code) % 11

\* validate_vat_dk.checksum
checksum_dk(code) == WeightedSum(<<2, 7, 6, 5, 4, 3, 2, 1>>, code) % 11

validate_vat_dk(vat) ==
    LET sanitized_vat == re_sub(<<DK>>, vat) IN
    IF ~isdigit(sanitized_vat) THEN Return(FALSE)
    ELSE IF Len(sanitized_vat) # 8 THEN Return(FALSE)
    ELSE IF sanitized_vat[1] = "0" THEN Return(FALSE)
    ELSE IF ~IntParses(sanitized_vat) THEN Raise("ValueError")
    ELSE Return(checksum_dk(sanitized_vat) = 0)

\* validate_vat_fi.checksum
checksum_fi(code) == WeightedSum(<<7, 9, 10, 5, 8, 4, 2, 1>>, code) % 11

validate_vat_fi(vat) ==
    LET sanitized_vat == re_sub(<<FI>>, vat) IN
    IF ~isdigit(sanitized_vat) THEN Return(FALSE)
    ELSE IF Len(sanitized_vat) # 8 THEN Return(FALSE)
    ELSE IF ~IntParses(sanitized_vat) THEN Raise("ValueError")
    ELSE Return(checksum_fi(sanitized_vat) = 0)

\* validate_vat_pt.calc_check_digit with the weights in the opposite order.
calc_check_digit_pt_reversed(code) ==
    LET check_digit == WeightedSum(<<2, 3, 4, 5, 6, 7, 8, 9>>, code)
    IN ((11 - check_digit) % 11) % 10

\* validate_vat_pt.calc_check_digit
calc_check_digit_pt(code) ==
    LET check_digit == WeightedSum(<<9, 8, 7, 6, 5, 4, 3, 2>>, code)
    IN ((11 - check_digit) % 11) % 10

\* validate_vat_pt without the test of the first digit.
validate_vat_pt_zero_allowed(vat) ==
    LET sanitized_vat == re_sub(<<PT>>, vat) IN
    IF ~isdigit(sanitized_vat) THEN Return(FALSE)
    ELSE IF Len(sanitized_vat) # 9 THEN Return(FALSE)
    ELSE IF ~IntParses(sanitized_vat) THEN Raise("ValueError")
    ELSE Return(calc_check_digit_pt(Take(sanitized_vat, 8))
                  = DigitVal(sanitized_vat[9]))

validate_vat_pt(vat) ==
    LET sanitized_vat == re_sub(<<PT>>, vat) IN
    IF ~isdigit(sanitized_vat) THEN Return(FALSE)
    ELSE IF Len(sanitized_vat) # 9 THEN Return(FALSE)
    ELSE IF sanitized_vat[1] = "0" THEN Return(FALSE)
    ELSE IF ~IntParses(sanitized_vat) THEN Raise("ValueError")
    ELSE Return(calc_check_digit_pt(Take(sanitized_vat, 8))
                  = DigitVal(sanitized_vat[9]))

\* validate_vat_ro.calc_check_digit; zip stops at the shorter of weights and code
calc_check_digit_ro(code) ==
    LET index == 10 - Len(code)
        weights == Drop(<<7, 5, 3, 2, 1, 7, 5, 3, 2>>, index)
        check_digit == (10 * WeightedSum(weights, code)) % 11
    IN IF check_digit = 10 THEN 0 ELSE check_digit

validate_vat_ro(vat) ==
    LET sanitized_vat == re_sub(<<RO>>, vat) IN
    IF Len(sanitized_vat) \notin 2..10 THEN Return(FALSE)
    ELSE IF ~isdigit(sanitized_vat) THEN Return(FALSE)
    ELSE IF ~IntParses(sanitized_vat) THEN Raise("ValueError")
    ELSE Return(calc_check_digit_ro(sanitized_vat)
                  = DigitVal(sanitized_vat[Len(sanitized_vat)]))

-----------------------------------------------------------------------------
(* The rules of countries.py that apply re.match to the raw input.         *)

\* The result of a re.match that fails.
NoMatch == <<"None">>

\* What a pattern ending in $ sees: $ also matches before one final newline.
DollarBody(s) ==
    IF Len(s) > 0 /\ s[Len(s)] = "\n" THEN Take(s, Len(s) - 1) ELSE s

\* re.match of ^(prefix)?body, case sensitive, given whether the body pattern
\* matches after the prefix and whether it matches the whole input: the text
\* the body matched, the prefix taken first and given back when the rest fails.
re_match(prefix, vat, afterPrefix, bare) ==
    IF StartsWith(vat, prefix) /\ afterPrefix THEN Drop(vat, Len(prefix))
    ELSE IF bare THEN vat
    ELSE NoMatch

\* The digits of a matched group, as integers: map(int, group).
Ints(s) == [i \in 1..Len(s) |-> DigitVal(s[i])]

\* ceil(a / b) * b for positive integers.
CeilTo(a, b) == ((a + b - 1) \div b) * b

\* floor(c / 5) + ((2 * c) % 10): the digit sum of twice a digit.
DoubledDigit(c) == (c \div 5) + ((2 * c) % 10)

\* (\d{n})$
DigitsBody(s, n) == AllDigits(DollarBody(s), n)

\* re.match(r"^(XX)?(\d{n})$", vat): the text of group 2, or NoMatch.
match_digits(prefix, vat, n) ==
    re_match(prefix, vat, DigitsBody(Drop(vat, 2), n), DigitsBody(vat, n))

\* (\d{8})(\d?)(\d?)$
CzBody(s) == \E n \in 8..10 : AllDigits(DollarBody(s), n)

\* validate_vat_cz.legal_entities_style, c the digits matched
legal_entities_style(c) ==
    LET a1 == 8 * c[1] + 7 * c[2] + 6 * c[3] + 5 * c[4] + 4 * c[5] + 3 * c[6] + 2 * c[7]
        a2 == IF a1 % 11 = 0 THEN a1 + 11 ELSE CeilTo(a1, 11)
    IN IF Len(c) >= 9 THEN FALSE
       ELSE c[8] = (a2 - a1) % 10

\* validate_vat_cz.individuals_style_1 without the test of the year.
individuals_style_1_any_year(c) ==
    IF Len(c) # 9 THEN FALSE
    ELSE ((10 * c[3] + c[4]) \in 1..12 \/ (10 * c[3] + c[4]) \in 51..62)
         /\ (10 * c[5] + c[6]) \in 1..31

\* validate_vat_cz.individuals_style_1
individuals_style_1(c) ==
    IF Len(c) # 9 THEN FALSE
    ELSE (10 * c[1] + c[2]) \in 0..53
         /\ ((10 * c[3] + c[4]) \in 1..12 \/ (10 * c[3] + c[4]) \in 51..62)
         /\ (10 * c[5] + c[6]) \in 1..31

\* validate_vat_cz.individuals_style_2
individuals_style_2(c) ==
    LET a1 == 8 * c[2] + 7 * c[3] + 6 * c[4] + 5 * c[5] + 4 * c[6] + 3 * c[7] + 2 * c[8]
        a2 == IF a1 % 11 = 0 THEN a1 + 11 ELSE CeilTo(a1, 11)
    IN IF Len(c) # 9 THEN FALSE
       ELSE c[9] = <<0, 8, 7, 6, 5, 4, 3, 2, 1, 0, 9, 8>>[(a2 - a1) + 1]

\* validate_vat_cz.individuals_style_3, d the text matched
individuals_style_3(c, d) ==
    IF Len(c) # 10 THEN FALSE
    ELSE IntMod(d, 11) = 0
         /\ ((10 * c[1] + c[2]) + (10 * c[3] + c[4]) + (10 * c[5] + c[6])
             + (10 * c[7] + c[8]) + (10 * c[9] + c[10])) % 11 = 0

\* The four styles of validate_vat_cz, tried in order.
cz_styles(d) ==
    legal_entities_style(Ints(d)) \/ individuals_style_1(Ints(d))
    \/ individuals_style_2(Ints(d)) \/ individuals_style_3(Ints(d), d)

validate_vat_cz(vat) ==
    LET matched == re_match(CZ, vat, CzBody(Drop(vat, 2)), CzBody(vat))
    IN IF matched = NoMatch THEN Return(FALSE)
       ELSE Return(cz_styles(DollarBody(matched)))

\* The reduce of validate_vat_de over c1..c8, from 10.
RECURSIVE reduce_de(_, _)
reduce_de(x, cs) ==
    IF Len(cs) = 0 THEN x
    ELSE reduce_de((2 * (IF (cs[1] + x) % 10 = 0 THEN 10 ELSE (cs[1] + x) % 10)) % 11,
                   Drop(cs, 1))

\* The check of validate_vat_de on the nine digits matched, r being 11 - p.
de_check(c, r) == c[1] > 0 /\ ((r = 10 /\ c[9] = 0) \/ c[9] = r)

validate_vat_de(vat) ==
    LET matched == match_digits(DE, vat, 9)
    IN IF matched = NoMatch THEN Return(FALSE)
       ELSE Return(de_check(Ints(DollarBody(matched)),
                            11 - reduce_de(10, Take(Ints(DollarBody(matched)), 8))))

\* The check of validate_vat_ee on the nine digits matched.
ee_check(c) ==
    LET r == 3 * c[1] + 7 * c[2] + 1 * c[3] + 3 * c[4] + 7 * c[5]
             + 1 * c[6] + 3 * c[7] + 7 * c[8]
    IN c[9] = CeilTo(r, 10) - r

validate_vat_ee(vat) ==
    LET matched == match_digits(EE, vat, 9)
    IN IF matched = NoMatch THEN Return(FALSE)
       ELSE Return(ee_check(Ints(DollarBody(matched))))

\* The check of validate_vat_el on the nine digits matched.
el_check(c) ==
    LET r == (256 * c[1] + 128 * c[2] + 64 * c[3] + 32 * c[4] + 16 * c[5]
              + 8 * c[6] + 4 * c[7] + 2 * c[8]) % 11
    IN c[9] = (r % 11) % 10

\* re.match(r"^(EL|GR)?(\d{9})$", vat): either spelling of the prefix.
el_match(vat) ==
    IF (StartsWith(vat, EL) \/ StartsWith(vat, GR)) /\ DigitsBody(Drop(vat, 2), 9)
    THEN Drop(vat, 2)
    ELSE IF DigitsBody(vat, 9) THEN vat
    ELSE NoMatch

validate_vat_el(vat) ==
    LET matched == el_match(vat)
    IN IF matched = NoMatch THEN Return(FALSE)
       ELSE Return(el_check(Ints(DollarBody(matched))))

\* (\w)(\d{7})(\w)$
EsBody(s) ==
    Len(DollarBody(s)) = 9 /\ IsWordChar(s[1]) /\ AllDigits(SubSeq(s, 2, 8), 7)
    /\ IsWordChar(s[9])

validate_vat_es(vat) ==
    Return(re_match(ES, vat, EsBody(Drop(vat, 2)), EsBody(vat)) # NoMatch)

\* (\d{2})(\d{9}) with anything after it
FrBody(s) == Len(s) >= 11 /\ AllDigits(Take(s, 11), 11)

\* re.match(r"^(FR?)?(\d{2})(\d{9})", vat): "FR", else "F", else no prefix.
fr_match(vat) ==
    IF StartsWith(vat, FR) /\ FrBody(Drop(vat, 2)) THEN Drop(vat, 2)
    ELSE IF StartsWith(vat, <<"F">>) /\ FrBody(Drop(vat, 1)) THEN Drop(vat, 1)
    ELSE IF FrBody(vat) THEN vat
    ELSE NoMatch

\* The check of validate_vat_fr: group 2 against (group 3 * 100 + 12) % 97,
\* group 3 reduced mod 97 first, which leaves the remainder the same.
fr_check(matched) ==
    int(Take(matched, 2)) = (IntMod(SubSeq(matched, 3, 11), 97) * 100 + 12) % 97

validate_vat_fr(vat) ==
    LET matched == fr_match(vat)
    IN IF matched = NoMatch THEN Return(FALSE)
       ELSE Return(fr_check(matched))

\* The pattern of validate_vat_gb without its alternatives: (\d{9})$
GbBody_nine_digits(s) == AllDigits(DollarBody(s), 9)

\* (\d{9}(\d{3})?|[A-Z]{2}\d{3})$
GbBody(s) ==
    \/ AllDigits(DollarBody(s), 9)
    \/ AllDigits(DollarBody(s), 12)
    \/ Len(DollarBody(s)) = 5 /\ s[1] \in UpperLetters /\ s[2] \in UpperLetters
       /\ AllDigits(SubSeq(s, 3, 5), 3)

validate_vat_gb(vat) ==
    Return(re_match(GB, vat, GbBody(Drop(vat, 2)), GbBody(vat)) # NoMatch)

\* The loop of validate_vat_hr without the mapping of a zero sum to 10.
RECURSIVE product_hr_zero_kept(_, _)
product_hr_zero_kept(product, digits) ==
    IF Len(digits) = 0 THEN product
    ELSE product_hr_zero_kept((2 * ((digits[1] + product) % 10)) % 11,
                              Drop(digits, 1))

\* The loop of validate_vat_hr over the first ten digits.
RECURSIVE product_hr(_, _)
product_hr(product, digits) ==
    IF Len(digits) = 0 THEN product
    ELSE product_hr((2 * (IF (digits[1] + product) % 10 = 0 THEN 10
                          ELSE (digits[1] + product) % 10)) % 11,
                    Drop(digits, 1))

\* The check of validate_vat_hr with the final relation taken modulo 11.
hr_check_mod11(c) == (product_hr(10, Take(c, 10)) + c[11]) % 11 = 1

\* The check of validate_vat_hr on the eleven digits matched.
hr_check(c) == (product_hr(10, Take(c, 10)) + c[11]) % 10 = 1

validate_vat_hr(vat) ==
    LET matched == match_digits(HR, vat, 11)
    IN IF matched = NoMatch THEN Return(FALSE)
       ELSE Return(hr_check(Ints(DollarBody(matched))))

\* The check of validate_vat_hu on the eight digits matched.
hu_check(c) ==
    LET r == 9 * c[1] + 7 * c[2] + 3 * c[3] + 1 * c[4] + 9 * c[5] + 7 * c[6] + 3 * c[7]
    IN (r % 10 = 0 /\ c[8] = 0) \/ 10 - (r % 10) = c[8]

validate_vat_hu(vat) ==
    LET matched == match_digits(HU, vat, 8)
    IN IF matched = NoMatch THEN Return(FALSE)
       ELSE Return(hu_check(Ints(DollarBody(matched))))

\* check_chars of validate_vat_ie: the letter for each remainder, from 0.
check_chars == <<"W","A","B","C","D","E","F","G","H","I","J","K","L","M",
                 "N","O","P","Q","R","S","T","U","V">>

\* [A-W]
LettersAW == {UpperSeq[i] : i \in 1..23}

\* (\d)([A-Z+*])(\d{5})([A-W]) with anything after it
IeOldBody(s) ==
    Len(s) >= 8 /\ s[1] \in DecimalDigits
    /\ s[2] \in UpperLetters \cup {"+", "*"}
    /\ AllDigits(SubSeq(s, 3, 7), 5) /\ s[8] \in LettersAW

\* (\d{7})([A-W])([A-IW])? with anything after it
IeNewBody(s) ==
    Len(s) >= 8 /\ AllDigits(Take(s, 7), 7) /\ s[8] \in LettersAW

\* The check of validate_vat_ie.old_style on the text matched.
old_style_check(m) ==
    LET r == (8 * 0 + 7 * DigitVal(m[3]) + 6 * DigitVal(m[4]) + 5 * DigitVal(m[5])
              + 4 * DigitVal(m[6]) + 3 * DigitVal(m[7]) + 2 * DigitVal(m[1])) % 23
    IN m[8] = check_chars[r + 1]

\* validate_vat_ie.old_style
old_style(vat) ==
    LET matched == re_match(IE, vat, IeOldBody(Drop(vat, 2)), IeOldBody(vat))
    IN IF matched = NoMatch THEN FALSE
       ELSE old_style_check(matched)

\* "WABCDEFGHI".index(group 4) of validate_vat_ie.new_style, 0 when the
\* optional group ([A-IW])? did not take part in the match.
c9_ie(m) ==
    IF Len(m) >= 9 /\ m[9] \in {check_chars[i] : i \in 1..10}
    THEN (CHOOSE i \in 1..10 : check_chars[i] = m[9]) - 1
    ELSE 0

\* The check of validate_vat_ie.new_style on the text matched.
new_style_check(m, c9) ==
    LET r == (9 * c9 + 8 * DigitVal(m[1]) + 7 * DigitVal(m[2]) + 6 * DigitVal(m[3])
              + 5 * DigitVal(m[4]) + 4 * DigitVal(m[5]) + 3 * DigitVal(m[6])
              + 2 * DigitVal(m[7])) % 23
    IN r < Len(check_chars) /\ m[8] = check_chars[r + 1]

\* validate_vat_ie.new_style
new_style(vat) ==
    LET matched == re_match(IE, vat, IeNewBody(Drop(vat, 2)), IeNewBody(vat))
    IN IF matched = NoMatch THEN FALSE
       ELSE new_style_check(matched, c9_ie(matched))

validate_vat_ie(vat) == Return(old_style(vat) \/ new_style(vat))

\* The check of validate_vat_it on the eleven digits matched.
it_check(c) ==
    LET s1 == c[1] + c[3] + c[5] + c[7] + c[9]
        s2 == DoubledDigit(c[2]) + DoubledDigit(c[4]) + DoubledDigit(c[6])
              + DoubledDigit(c[8]) + DoubledDigit(c[10])
    IN c[11] = (10 - ((s1 + s2) % 10)) % 10

validate_vat_it(vat) ==
    LET matched == match_digits(IT, vat, 11)
    IN IF matched = NoMatch THEN Return(FALSE)
       ELSE Return(it_check(Ints(DollarBody(matched))))

\* The last lines of both styles of validate_vat_lt: the check digit c
\* against the remainders r1 and r2.
lt_check_digit(c, r1, r2) ==
    IF r1 % 10 # 0 THEN c = r1
    ELSE (r2 = 10 /\ c = 0) \/ c = r2

\* The check of validate_vat_lt.legal_persons_style on the nine digits matched.
legal_persons_check(c) ==
    IF c[8] # 1 THEN FALSE
    ELSE lt_check_digit(c[9],
            (1 * c[1] + 2 * c[2] + 3 * c[3] + 4 * c[4] + 5 * c[5] + 6 * c[6]
             + 7 * c[7] + 8 * c[8]) % 11,
            (3 * c[1] + 4 * c[2] + 5 * c[3] + 6 * c[4] + 7 * c[5] + 8 * c[6]
             + 9 * c[7] + 1 * c[8]) % 11)

\* validate_vat_lt.legal_persons_style
legal_persons_style(vat) ==
    LET matched == match_digits(LT, vat, 9)
    IN IF matched = NoMatch THEN FALSE
       ELSE legal_persons_check(Ints(DollarBody(matched)))

\* The check of validate_vat_lt.temporary_registered_taxpayers_style on the
\* twelve digits matched.
temporary_check(c) ==
    IF c[11] # 1 THEN FALSE
    ELSE lt_check_digit(c[12],
            (1 * c[1] + 2 * c[2] + 3 * c[3] + 4 * c[4] + 5 * c[5] + 6 * c[6]
             + 7 * c[7] + 8 * c[8] + 9 * c[9] + 1 * c[10] + 2 * c[11]) % 11,
            (3 * c[1] + 4 * c[2] + 6 * c[4] + 7 * c[5] + 8 * c[6] + 9 * c[7]
             + 1 * c[8] + 2 * c[9] + 3 * c[10] + 4 * c[11]) % 11)

\* validate_vat_lt.temporary_registered_taxpayers_style
temporary_registered_taxpayers_style(vat) ==
    LET matched == match_digits(LT, vat, 12)
    IN IF matched = NoMatch THEN FALSE
       ELSE temporary_check(Ints(DollarBody(matched)))

validate_vat_lt(vat) ==
    Return(legal_persons_style(vat) \/ temporary_registered_taxpayers_style(vat))

\* The check of validate_vat_lu on the eight characters matched.
lu_check(d) == int(Drop(d, 6)) = int(Take(d, 6)) % 89

validate_vat_lu(vat) ==
    LET matched == match_digits(LU, vat, 8)
    IN IF matched = NoMatch THEN Return(FALSE)
       ELSE Return(lu_check(DollarBody(matched)))

\* ([4-9]\d{10})$
LvStyle1Body(s) ==
    AllDigits(DollarBody(s), 11) /\ s[1] \in {"4", "5", "6", "7", "8", "9"}

\* 32\d{9} with anything after it
LvStyle2Body(s) ==
    Len(s) >= 11 /\ s[1] = "3" /\ s[2] = "2" /\ AllDigits(SubSeq(s, 3, 11), 9)

\* (\d{2})(\d{2})(\d{2})[012](\d{4})$
LvStyle3Body(s) ==
    AllDigits(DollarBody(s), 11) /\ s[7] \in {"0", "1", "2"}

\* The check of validate_vat_lv.style_1 on the eleven digits matched.
style_1_check(c) ==
    LET r == 3 - ((9 * c[1] + 1 * c[2] + 4 * c[3] + 8 * c[4] + 3 * c[5] + 10 * c[6]
                   + 2 * c[7] + 5 * c[8] + 7 * c[9] + 6 * c[10]) % 11)
    IN r # -1 /\ ((r < -1 /\ c[11] = r + 11) \/ (r > -1 /\ c[11] = r))

\* validate_vat_lv.style_1
style_1(vat) ==
    LET matched == re_match(LV, vat, LvStyle1Body(Drop(vat, 2)), LvStyle1Body(vat))
    IN IF matched = NoMatch THEN FALSE
       ELSE style_1_check(Ints(DollarBody(matched)))

\* validate_vat_lv.style_2
style_2(vat) ==
    re_match(LV, vat, LvStyle2Body(Drop(vat, 2)), LvStyle2Body(vat)) # NoMatch

\* The check of validate_vat_lv.style_3 on the text matched.
style_3_check(m) ==
    int(SubSeq(m, 1, 2)) \in 0..30 /\ int(SubSeq(m, 3, 4)) \in 0..11

\* validate_vat_lv.style_3
style_3(vat) ==
    LET matched == re_match(LV, vat, LvStyle3Body(Drop(vat, 2)), LvStyle3Body(vat))
    IN IF matched = NoMatch THEN FALSE
       ELSE style_3_check(matched)

validate_vat_lv(vat) == Return(style_1(vat) \/ style_2(vat) \/ style_3(vat))

\* The check of validate_vat_mt with the remainder itself as check digits.
mt_check_remainder(c) ==
    LET c7_c8 == 10 * c[7] + c[8]
    IN c7_c8 = (3 * c[1] + 4 * c[2] + 6 * c[3] + 7 * c[4] + 8 * c[5] + 9 * c[6]) % 37

\* The check of validate_vat_mt on the eight digits matched.
mt_check(c) ==
    LET c7_c8 == 10 * c[7] + c[8]
        r == 37 - ((3 * c[1] + 4 * c[2] + 6 * c[3] + 7 * c[4] + 8 * c[5] + 9 * c[6]) % 37)
    IN (r = 0 /\ c7_c8 = 37) \/ c7_c8 = r

validate_vat_mt(vat) ==
    LET matched == match_digits(MT, vat, 8)
    IN IF matched = NoMatch THEN Return(FALSE)
       ELSE Return(mt_check(Ints(DollarBody(matched))))

\* (\d{9})B(\d{2})$
NlBody(s) ==
    Len(DollarBody(s)) = 12 /\ AllDigits(Take(s, 9), 9) /\ s[10] = "B"
    /\ AllDigits(SubSeq(s, 11, 12), 2)

\* The check of validate_vat_nl on the nine digits of group 2.
nl_check(c) ==
    LET r == (9 * c[1] + 8 * c[2] + 7 * c[3] + 6 * c[4] + 5 * c[5] + 4 * c[6]
              + 3 * c[7] + 2 * c[8]) % 11
    IN r # 10 /\ r = c[9]

validate_vat_nl(vat) ==
    LET matched == re_match(NL, vat, NlBody(Drop(vat, 2)), NlBody(vat))
    IN IF matched = NoMatch THEN Return(FALSE)
       ELSE Return(nl_check(Ints(Take(matched, 9))))

\* The check of validate_vat_pl with a remainder of 10 taken as check digit 0.
pl_check_ten_as_zero(c) ==
    LET r == (6 * c[1] + 5 * c[2] + 7 * c[3] + 2 * c[4] + 3 * c[5] + 4 * c[6]
              + 5 * c[7] + 6 * c[8] + 7 * c[9]) % 11
    IN r % 10 = c[10]

\* The check of validate_vat_pl on the ten digits matched.
pl_check(c) ==
    LET r == (6 * c[1] + 5 * c[2] + 7 * c[3] + 2 * c[4] + 3 * c[5] + 4 * c[6]
              + 5 * c[7] + 6 * c[8] + 7 * c[9]) % 11
    IN r # 10 /\ r = c[10]

validate_vat_pl(vat) ==
    LET matched == match_digits(PL, vat, 10)
    IN IF matched = NoMatch THEN Return(FALSE)
       ELSE Return(pl_check(Ints(DollarBody(matched))))

\* The check of validate_vat_se on the twelve digits matched.
se_check(c) ==
    LET r == DoubledDigit(c[1]) + DoubledDigit(c[3]) + DoubledDigit(c[5])
             + DoubledDigit(c[7]) + DoubledDigit(c[9])
    IN c[10] = (10 - ((r + c[2] + c[4] + c[6] + c[8]) % 10)) % 10

validate_vat_se(vat) ==
    LET matched == match_digits(SE, vat, 12)
    IN IF matched = NoMatch THEN Return(FALSE)
       ELSE Return(se_check(Ints(DollarBody(matched))))

\* The check of validate_vat_si on the eight digits matched.
si_check(c) ==
    LET r == 11 - ((c[1] * 8 + c[2] * 7 + c[3] * 6 + c[4] * 5 + c[5] * 4
                    + c[6] * 3 + c[7] * 2) % 11)
    IN r # 11 /\ ((r = 10 /\ c[8] = 0) \/ c[8] = r)

validate_vat_si(vat) ==
    LET matched == match_digits(SI, vat, 8)
    IN IF matched = NoMatch THEN Return(FALSE)
       ELSE Return(si_check(Ints(DollarBody(matched))))

validate_vat_sk(vat) ==
    LET matched == match_digits(SK, vat, 10)
    IN IF matched = NoMatch THEN Return(FALSE)
       ELSE Return(IntMod(DollarBody(matched), 11) = 0)

-----------------------------------------------------------------------------
(* The registry.                                                           *)

\* The keys of EU_RULES in insertion order; EU_COUNTRY_CODES is the same list.
EU_COUNTRY_CODES == <<AT, BE, BG, HR, CY, CZ, DE, DK, EE, EL, ES, FI, FR, GB,
                      HU, IE, IT, LT, LU, LV, MT, NL, PL, PT, RO, SE, SI, SK>>

\* The set of keys: what "country_code in EU_RULES" tests.
RegistryKeys == {EU_COUNTRY_CODES[i] : i \in 1..Len(EU_COUNTRY_CODES)}

\* EU_RULES[country_code](vat)
EU_RULES(country_code, vat) ==
    CASE country_code = AT -> validate_vat_at(vat)
      [] country_code = BE -> validate_vat_be(vat)
      [] country_code = BG -> validate_vat_bg(vat)
      [] country_code = HR -> validate_vat_hr(vat)
      [] country_code = CY -> validate_vat_cy(vat)
      [] country_code = CZ -> validate_vat_cz(vat)
      [] country_code = DE -> validate_vat_de(vat)
      [] country_code = DK -> validate_vat_dk(vat)
      [] country_code = EE -> validate_vat_ee(vat)
      [] country_code = EL -> validate_vat_el(vat)
      [] country_code = ES -> validate_vat_es(vat)
      [] country_code = FI -> validate_vat_fi(vat)
      [] country_code = FR -> validate_vat_fr(vat)
      [] country_code = GB -> validate_vat_gb(vat)
      [] country_code = HU -> validate_vat_hu(vat)
      [] country_code = IE -> validate_vat_ie(vat)
      [] country_code = IT -> validate_vat_it(vat)
      [] country_code = LT -> validate_vat_lt(vat)
      [] country_code = LU -> validate_vat_lu(vat)
      [] country_code = LV -> validate_vat_lv(vat)
      [] country_code = MT -> validate_vat_mt(vat)
      [] country_code = NL -> validate_vat_nl(vat)
      [] country_code = PL -> validate_vat_pl(vat)
      [] country_code = PT -> validate_vat_pt(vat)
      [] country_code = RO -> validate_vat_ro(vat)
      [] country_code = SE -> validate_vat_se(vat)
      [] country_code = SI -> validate_vat_si(vat)
      [] country_code = SK -> validate_vat_sk(vat)

-----------------------------------------------------------------------------
(* utils.py                                                                *)

\* The keys of a registry, the registry given as the list of its keys.
KeysOf(keys) == {keys[i] : i \in 1..Len(keys)}

\* A list without the entry x.
RECURSIVE Without(_, _)
Without(keys, x) ==
    IF Len(keys) = 0 THEN <<>>
    ELSE (IF keys[1] = x THEN <<>> ELSE <<keys[1]>>) \o Without(Drop(keys, 1), x)

\* The rule taken out of the registry: rule = EU_RULES.pop(country_code).
rules_after_pop(keys, country_code) == Without(keys, country_code)

\* The registry after validate_vat has tested "country_code not in EU_RULES"
\* and read EU_RULES[country_code]: neither changes the dict.
rules_after_lookup(keys, country_code) == keys

\* utils.validate_vat, keys being the keys EU_RULES holds when it is called.
validate_vat_in(keys, country_code, vat) ==
    IF country_code \notin KeysOf(keys) THEN Raise("ValueError")
    ELSE EU_RULES(country_code, vat)

\* utils.validate_vat with the registry as it is at start-up.
validate_vat(country_code, vat) ==
    validate_vat_in(EU_COUNTRY_CODES, country_code, vat)

\* The rules validate_vat evaluates, in order.
validate_vat_evaluates(country_code, vat) ==
    IF country_code \notin RegistryKeys THEN <<>> ELSE <<country_code>>

\* The index of the first rule that raises for vat, 0 when none does.
FirstRaising(keys, vat) ==
    LET raising == {k \in 1..Len(keys) : EU_RULES(keys[k], vat).kind = "raise"}
    IN IF raising = {} THEN 0
       ELSE CHOOSE k \in raising : \A m \in raising : k <= m

\* The list comprehension without its filter: [country for country, rule in
\* EU_RULES.items()]
where_valid_unfiltered(keys, vat, k) == Drop(keys, k - 1)

\* [country for country, rule in EU_RULES.items() if rule(vat)]
RECURSIVE where_valid(_, _, _)
where_valid(keys, vat, k) ==
    IF k > Len(keys) THEN <<>>
    ELSE (IF EU_RULES(keys[k], vat) = Return(TRUE)
          THEN <<keys[k]>> ELSE <<>>) \o where_valid(keys, vat, k + 1)

\* The list comprehension of countries_where_vat_is_valid, first being the
\* index of the first rule that raises: that rule ends the call.
where_valid_or_raise(keys, vat, first) ==
    IF first # 0 THEN EU_RULES(keys[first], vat)
    ELSE Return(where_valid(keys, vat, 1))

\* utils.countries_where_vat_is_valid, keys being the keys EU_RULES holds.
countries_where_vat_is_valid_in(keys, vat) ==
    where_valid_or_raise(keys, vat, FirstRaising(keys, vat))

\* utils.countries_where_vat_is_valid with the registry as it is at start-up.
countries_where_vat_is_valid(vat) ==
    countries_where_vat_is_valid_in(EU_COUNTRY_CODES, vat)

\* The rules the list comprehension evaluates, in order.
evaluated_until(keys, first) ==
    IF first # 0 THEN Take(keys, first) ELSE keys

\* The rules countries_where_vat_is_valid evaluates, in order.
countries_where_evaluates(keys, vat) == evaluated_until(keys, FirstRaising(keys, vat))

\* utils.sanitize_vat, country_codes being what EU_COUNTRY_CODES holds.
sanitize_vat_in(country_codes, vat) == Return(re_sub(country_codes, vat))

\* utils.sanitize_vat with EU_COUNTRY_CODES as it is at start-up.
sanitize_vat(vat) == sanitize_vat_in(EU_COUNTRY_CODES, vat)

-----------------------------------------------------------------------------
(* sanitizers.py and vies.py                                               *)

\* The keys of the dict of sanitizers in sanitizers.sanitize_vat.
sanitizers == {AT, BE, BG, CY, CZ, DE, DK, EE, EL, ES, FI, FR, GB, HR, HU, IE,
               IT, LT, LU, LV, MT, NL, PL, PT, RO, SE, SL, SK}

\* sanitize_vat_xx of sanitizers.py, xx being country_code in lower case.
sanitize_vat_xx(country_code, vat) == re_sub(<<country_code>>, vat)

\* sanitizers.sanitize_vat
sanitizers_sanitize_vat(country_code, vat) ==
    IF country_code \notin RegistryKeys THEN Raise("ValueError")
    ELSE IF country_code \notin sanitizers THEN Raise("KeyError")
    ELSE Return(sanitize_vat_xx(country_code, vat))

\* What the VIES service may answer to one request.
Responses == {"valid", "invalid", "URLError"}

\* vies.check_vat, given the answer of the service when a request is sent.
check_vat(country_code, vat, response) ==
    LET sanitized == sanitizers_sanitize_vat(country_code, vat)
    IN IF country_code \notin RegistryKeys THEN Raise("ValueError")
       ELSE IF sanitized.kind = "raise" THEN sanitized
       ELSE IF response = "URLError" THEN Raise("URLError")
       ELSE Return([country_code |-> country_code, vat |-> sanitized.value,
                    valid |-> (response = "valid")])

\* The requests check_vat sends to the service: at most one.
check_vat_sends(country_code, vat) ==
    LET sanitized == sanitizers_sanitize_vat(country_code, vat)
    IN IF country_code \notin RegistryKeys \/ sanitized.kind = "raise" THEN <<>>
       ELSE <<[countryCode |-> country_code, vatNumber |-> sanitized.value]>>

-----------------------------------------------------------------------------
(* validators.py                                                           *)

\* validators.vat_is_valid_pt
vat_is_valid_pt(vat) ==
    LET sanitized_vat == sanitize_vat_xx(PT, vat)
        sum_digits == WeightedSum(<<9, 8, 7, 6, 5, 4, 3, 2, 1>>, sanitized_vat)
        resto == sum_digits % 11
    IN
    IF Len(sanitized_vat) # 9 \/ ~isdigit(sanitized_vat) THEN Return(FALSE)
    ELSE IF ~IntParses(sanitized_vat) THEN Raise("ValueError")
    ELSE IF DigitVal(sanitized_vat[9]) = 0 /\ resto = 1
         THEN Return((sum_digits + 10) % 11 = 0)
    ELSE Return(resto = 0)

\* The keys of the dict of validators in validators.vat_is_valid.
validators == {AT, BE, BG, CY, CZ, DE, DK, EE, EL, ES, FI, FR, GB, HR, HU, IE,
               IT, LT, LU, LV, MT, NL, PL, PT, RO, SE, SL, SK}

\* validators.vat_is_valid: every validator but the Portuguese returns False.
vat_is_valid(country_code, vat) ==
    IF country_code \notin RegistryKeys THEN Raise("ValueError")
    ELSE IF country_code \notin validators THEN Raise("KeyError")
    ELSE IF country_code = PT THEN vat_is_valid_pt(vat)
    ELSE Return(FALSE)

-----------------------------------------------------------------------------
(* The calls the model makes.                                              *)

\* Strings no longer than this are tried exhaustively.
MaxShortLen == 2

\* A separator is inserted after at most this many characters.
MaxSepPos == 3

\* The characters of the exhaustive short strings.
ShortAlphabet == {"1", "P", "T", " ", "_", SuperscriptTwo}

\* The separators inserted into the examples.
Separators == {" ", "-", "_"}

\* The characters that replace the last character of an example.
TailChars == DecimalDigits \cup {SuperscriptTwo}

RECURSIVE StringsOfLen(_)
StringsOfLen(n) ==
    IF n = 0 THEN {<<>>}
    ELSE {Append(s, c) : s \in StringsOfLen(n - 1), c \in ShortAlphabet}

ShortStrings == UNION {StringsOfLen(n) : n \in 0..MaxShortLen}

\* One number per country that the country's rule accepts, and the numbers
\* the documentation quotes.
Examples ==
    {  [country |-> AT, body |-> <<"U","1","0","0","3","3","9","0","7">>],
       [country |-> BE, body |-> <<"0","1","6","9","0","1","9","1","3","4">>],
       [country |-> BG, body |-> <<"4","0","0","3","9","0","2","6","6","0">>],
       [country |-> HR, body |-> <<"7","2","1","1","7","9","3","7","6","4","6">>],
       [country |-> HR, body |-> <<"5","7","5","8","4","1","6","6","4","6","8">>],
       [country |-> CY, body |-> <<"7","8","4","7","5","3","6","8","C">>],
       [country |-> CZ, body |-> <<"8","1","5","1","4","1","5","1","0">>],
       [country |-> DE, body |-> <<"6","6","8","4","4","0","7","4","1">>],
       [country |-> DK, body |-> <<"1","3","5","8","5","6","2","8">>],
       [country |-> EE, body |-> <<"5","8","2","4","3","9","5","0","0">>],
       [country |-> EL, body |-> <<"0","9","9","4","8","4","6","9","1">>],
       [country |-> ES, body |-> <<"A","3","3","2","4","8","0","2","1">>],
       [country |-> FI, body |-> <<"6","0","5","9","8","4","9","7">>],
       [country |-> FR, body |-> <<"8","1","7","1","6","0","7","0","1","2","5">>],
       [country |-> GB, body |-> <<"9","2","6","9","7","3","4","8","4">>],
       [country |-> HU, body |-> <<"5","5","3","0","8","1","5","7">>],
       [country |-> IE, body |-> <<"1","4","1","9","0","1","2","B">>],
       [country |-> IT, body |-> <<"0","7","6","7","2","5","9","7","2","4","7">>],
       [country |-> LT, body |-> <<"2","1","7","5","5","8","3","8","5","9","1","6">>],
       [country |-> LU, body |-> <<"8","9","1","6","5","3","5","1">>],
       [country |-> LV, body |-> <<"4","4","5","2","4","6","0","7","5","7","7">>],
       [country |-> MT, body |-> <<"0","3","5","5","1","8","2","8">>],
       [country |-> NL, body |-> <<"0","7","9","2","0","4","4","3","0","B","5","6">>],
       [country |-> PL, body |-> <<"2","8","6","9","4","8","7","8","3","7">>],
       [country |-> PT, body |-> <<"9","8","0","4","0","5","3","1","9">>],
       [country |-> PT, body |-> <<"5","0","2","7","5","7","1","9","2">>],
       [country |-> PT, body |-> <<"5","0","2","0","1","1","3","7","8">>],
       [country |-> PT, body |-> <<"8","0","4","0","5","3","1","9">>],
       [country |-> RO, body |-> <<"4","2","2","3","7","2","0","0","1","4">>],
       [country |-> SE, body |-> <<"4","8","6","8","9","9","4","8","3","3","8","1">>],
       [country |-> SI, body |-> <<"2","4","9","7","8","8","6","8">>],
       [country |-> SK, body |-> <<"9","7","1","0","7","3","1","3","0","5">>]  }

\* s in lower case.
Lower(s) == [i \in 1..Len(s) |-> ToLower(s[i])]

\* s with c inserted after its first i characters.
Insert(s, i, c) == Take(s, i) \o <<c>> \o Drop(s, i)

\* s with one separator inserted after at most MaxSepPos characters.
Separated(s) ==
    {Insert(s, i, c) : i \in {k \in 0..MaxSepPos : k <= Len(s)}, c \in Separators}

\* The ways an example is written: bare, with its country code in upper or
\* lower case or twice, with a separator, and with another last character.
Forms(e) ==
    {e.body, e.country \o e.body, Lower(e.country) \o e.body,
     e.country \o e.country \o e.body}
    \cup Separated(e.body)
    \cup Separated(e.country \o e.body)
    \cup {Take(e.body, Len(e.body) - 1) \o <<c>> : c \in TailChars}

\* A number written with separators throughout, as the documentation does.
Spaced(e) ==
    e.country \o <<"-">> \o Take(e.body, 3) \o <<" ">> \o SubSeq(e.body, 4, 6)
    \o <<" ">> \o Drop(e.body, 6)

\* The last characters of an example, at most this many, are varied.
MaxTail == 2

\* The characters of the same kind as c: the digits, or the capital letters.
SameClass(c) ==
    IF c \in DecimalDigits THEN DecimalDigits
    ELSE IF c \in UpperLetters THEN UpperLetters
    ELSE {c}

\* s with each of its last k characters replaced by one of the same kind.
RECURSIVE TailVariants(_, _)
TailVariants(s, k) ==
    IF k = 0 \/ Len(s) = 0 THEN {s}
    ELSE {Append(t, c) : t \in TailVariants(Take(s, Len(s) - 1), k - 1),
                         c \in SameClass(s[Len(s)])}

\* Numbers with a zero where Belgium (second digit of ten, first of nine),
\* Denmark and Portugal (first digit) do not allow one.
ZeroLed ==
    {  [country |-> BE, body |-> <<"0","0","6","9","0","1","9","1","3","4">>],
       [country |-> BE, body |-> <<"0","6","9","0","1","9","1","3","4">>],
       [country |-> DK, body |-> <<"0","3","5","8","5","6","2","8">>],
       [country |-> PT, body |-> <<"0","8","0","4","0","5","3","1","9">>]  }

\* The months and days tried in the date of birth of a Bulgarian number:
\* the ends of the ranges 01-12, 21-32, 41-52 and 01-31, and what lies next.
BgMonths == {<<"0","0">>, <<"0","1">>, <<"1","2">>, <<"1","3">>, <<"2","0">>,
             <<"2","1">>, <<"3","2">>, <<"3","3">>, <<"4","0">>, <<"4","1">>,
             <<"5","2">>, <<"5","3">>}

BgDays == {<<"0","0">>, <<"0","1">>, <<"3","0">>, <<"3","1">>, <<"3","2">>}

\* Bulgarian numbers of ten digits: year 75, a month, a day, 000 and each
\* check digit.
BgDated ==
    {<<"7","5">> \o m \o d \o <<"0","0","0", c>> :
        m \in BgMonths, d \in BgDays, c \in DecimalDigits}

\* Belgian numbers in the old form of nine digits and with first digit 1.
BelgianForms ==
    {  [country |-> BE, body |-> <<"1","6","9","0","1","9","1","3","4">>],
       [country |-> BE, body |-> <<"1","1","6","9","0","1","9","1","3","4">>]  }

\* Each example with its last characters varied, for its own country; the
\* numbers of ZeroLed also with a last character that int() rejects.
VariantPairs ==
    UNION {{<<e.country, s>> : s \in TailVariants(e.body, MaxTail)}
              : e \in Examples \cup ZeroLed \cup BelgianForms}
    \cup {<<e.country, Append(Take(e.body, Len(e.body) - 1), SuperscriptTwo)>>
              : e \in ZeroLed}
    \cup {<<BG, s>> : s \in BgDated}

\* Every raw VAT string the model submits.
VatInputs ==
    ShortStrings \cup UNION {Forms(e) : e \in Examples} \cup {Spaced(e) : e \in Examples}

\* Every country code the model submits: the registry's, and codes outside it.
CodeInputs == RegistryKeys \cup {GR, SL, ZZ, Lower(PT), <<>>}

\* The (country code, VAT) pairs submitted: every code with every short string
\* and every bare example, and each example's forms with its own country.
PairInputs ==
    (CodeInputs \X (ShortStrings \cup {e.body : e \in Examples}))
    \cup UNION {{<<e.country, s>> : s \in Forms(e) \cup {Spaced(e)}} : e \in Examples}

Calls ==
    {[op |-> "validate_vat", args |-> p] : p \in PairInputs \cup VariantPairs}
    \cup {[op |-> "sanitizers.sanitize_vat", args |-> p] : p \in PairInputs}
    \cup {[op |-> "check_vat", args |-> p] : p \in PairInputs}
    \cup {[op |-> "countries_where_vat_is_valid", args |-> <<s>>] : s \in VatInputs}
    \cup {[op |-> "sanitize_vat", args |-> <<s>>] : s \in VatInputs}

\* A caller makes at most this many calls, one after the other.
MaxCalls == 2

\* The calls a caller may go on with after any call: one that returns, one
\* that raises for its country code, one that lists countries and one that
\* sanitizes.
FollowUps ==
    {[op |-> "validate_vat", args |-> <<PT, <<"9","8","0","4","0","5","3","1","9">>>>],
     [op |-> "validate_vat", args |-> <<ZZ, <<"1">>>>],
     [op |-> "countries_where_vat_is_valid",
      args |-> <<<<"9","8","0","4","0","5","3","1","9">>>>],
     [op |-> "sanitize_vat", args |-> <<<<"P","T","1">>>>]}

\* The operations of utils.py, which a caller goes on calling.
PureOps == {"validate_vat", "countries_where_vat_is_valid", "sanitize_vat"}

\* The outcome of a call that has not run.
NoOutcome == [kind |-> "none", value |-> <<>>]

-----------------------------------------------------------------------------
(* The state machine: a caller makes one call; the call runs to its end.   *)

Init ==
    /\ pc = "ready"
    /\ call \in Calls
    /\ outcome = NoOutcome
    /\ evaluated = <<>>
    /\ requests = <<>>
    /\ rules = EU_COUNTRY_CODES
    /\ codes = EU_COUNTRY_CODES
    /\ previous = NoOutcome
    /\ calls = 1
    /\ threads = <<>>
    /\ frames = <<>>

CallValidateVat ==
    /\ pc = "ready"
    /\ call.op = "validate_vat"
    /\ outcome' = validate_vat_in(rules, call.args[1], call.args[2])
    /\ evaluated' = validate_vat_evaluates(call.args[1], call.args[2])
    /\ rules' = rules_after_lookup(rules, call.args[1])
    /\ pc' = "done"
    /\ UNCHANGED <<call, requests, codes, previous, calls, threads, frames>>

CallCountriesWhereVatIsValid ==
    /\ pc = "ready"
    /\ call.op = "countries_where_vat_is_valid"
    /\ outcome' = countries_where_vat_is_valid_in(rules, call.args[1])
    /\ evaluated' = countries_where_evaluates(rules, call.args[1])
    /\ pc' = "done"
    /\ UNCHANGED <<call, requests, rules, codes, previous, calls, threads, frames>>

CallSanitizeVat ==
    /\ pc = "ready"
    /\ call.op = "sanitize_vat"
    /\ outcome' = sanitize_vat_in(codes, call.args[1])
    /\ pc' = "done"
    /\ UNCHANGED <<call, evaluated, requests, rules, codes, previous, calls, threads, frames>>

CallSanitizersSanitizeVat ==
    /\ pc = "ready"
    /\ call.op = "sanitizers.sanitize_vat"
    /\ outcome' = sanitizers_sanitize_vat(call.args[1], call.args[2])
    /\ pc' = "done"
    /\ UNCHANGED <<call, evaluated, requests, rules, codes, previous, calls, threads, frames>>

CallCheckVat ==
    /\ pc = "ready"
    /\ call.op = "check_vat"
    /\ \E response \in Responses :
          outcome' = check_vat(call.args[1], call.args[2], response)
    /\ requests' = requests \o check_vat_sends(call.args[1], call.args[2])
    /\ pc' = "done"
    /\ UNCHANGED <<call, evaluated, rules, codes, previous, calls, threads, frames>>

\* The caller of utils.py makes its next call: the same call again, whose
\* outcome is kept to compare, or one of FollowUps.
CallAgain ==
    /\ pc = "done"
    /\ calls < MaxCalls
    /\ call.op \in PureOps
    /\ \E next \in {call} \cup FollowUps :
          /\ call' = next
          /\ previous' = IF next = call THEN outcome ELSE NoOutcome
    /\ calls' = calls + 1
    /\ outcome' = NoOutcome
    /\ evaluated' = <<>>
    /\ pc' = "ready"
    /\ UNCHANGED <<requests, rules, codes, threads, frames>>

Next ==
    \/ CallValidateVat
    \/ CallCountriesWhereVatIsValid
    \/ CallSanitizeVat
    \/ CallSanitizersSanitizeVat
    \/ CallCheckVat
    \/ CallAgain

Spec == Init /\ [][Next]_vars

-----------------------------------------------------------------------------
(* Threads: several callers inside utils.validate_vat at the same time.    *)
(* A thread runs the statements of validate_vat one at a time, and any     *)
(* other thread may run between two of them.  The registry is shared; the  *)
(* parameters and the names a function assigns are its locals.             *)

\* The number of threads.
MaxThreads == 2

Threads == 1..MaxThreads

\* The calls a thread may make: accepted, rejected, of a wrong length,
\* raising inside the rule, and with a code outside the registry.
ThreadCalls ==
    {<<PT, <<"9","8","0","4","0","5","3","1","9">>>>,
     <<PT, <<"9","8","0","4","0","5","3","1","8">>>>,
     <<PT, <<"9","8","0","4","0","5","3","1",SuperscriptTwo>>>>,
     <<DK, <<"1","3","5","8","5","6","2","8">>>>,
     <<DK, <<"9","8","0","4","0","5","3","1","9">>>>,
     <<ZZ, <<"1">>>>}

\* A thread that has not begun its call.
NewThread(args) ==
    [pc |-> "test", call |-> args, rule |-> <<>>, outcome |-> NoOutcome]

\* The frame that holds the locals of the rule thread t calls: every call
\* of a function has a frame of its own.
frame_of_shared(t) == 1

frame_of(t) == t

InitThreads ==
    /\ threads \in [Threads -> {NewThread(args) : args \in ThreadCalls}]
    /\ frames = [f \in Threads |-> <<>>]
    /\ rules = EU_COUNTRY_CODES
    /\ codes = EU_COUNTRY_CODES
    /\ evaluated = <<>>
    /\ pc = "threads"
    /\ call = <<>>
    /\ outcome = NoOutcome
    /\ requests = <<>>
    /\ previous = NoOutcome
    /\ calls = 0

\* What the single caller of the state machine above keeps: the threads
\* leave it alone.
caller == <<pc, call, outcome, requests, codes, previous, calls>>

\* if country_code not in EU_RULES: raise ValueError("Invalid country code")
ThreadTest(t) ==
    /\ threads[t].pc = "test"
    /\ threads' = [threads EXCEPT ![t] =
          IF threads[t].call[1] \notin KeysOf(rules)
          THEN [@ EXCEPT !.pc = "done", !.outcome = Raise("ValueError")]
          ELSE [@ EXCEPT !.pc = "lookup"]]
    /\ UNCHANGED <<frames, rules, evaluated, caller>>

\* rule = EU_RULES[country_code]: KeyError when the key is not there.
ThreadLookup(t) ==
    /\ threads[t].pc = "lookup"
    /\ threads' = [threads EXCEPT ![t] =
          IF threads[t].call[1] \notin KeysOf(rules)
          THEN [@ EXCEPT !.pc = "done", !.outcome = Raise("KeyError")]
          ELSE [@ EXCEPT !.pc = "call", !.rule = threads[t].call[1]]]
    /\ rules' = rules_after_lookup(rules, threads[t].call[1])
    /\ UNCHANGED <<frames, evaluated, caller>>

\* rule(vat): the argument is bound to the parameter vat of the rule.
ThreadCall(t) ==
    /\ threads[t].pc = "call"
    /\ frames' = [frames EXCEPT ![frame_of(t)] = threads[t].call[2]]
    /\ threads' = [threads EXCEPT ![t].pc = "rule"]
    /\ UNCHANGED <<rules, evaluated, caller>>

\* The body of the rule runs on its parameter and gives its result, or
\* raises.
ThreadRule(t) ==
    /\ threads[t].pc = "rule"
    /\ threads' = [threads EXCEPT ![t] =
          [@ EXCEPT !.pc = "return",
                    !.outcome = EU_RULES(threads[t].rule, frames[frame_of(t)])]]
    /\ evaluated' = Append(evaluated, threads[t].rule)
    /\ UNCHANGED <<frames, rules, caller>>

\* return rule(vat): validate_vat hands the result of the rule to its caller.
ThreadReturn(t) ==
    /\ threads[t].pc = "return"
    /\ threads' = [threads EXCEPT ![t].pc = "done"]
    /\ UNCHANGED <<frames, rules, evaluated, caller>>

NextThreads ==
    \E t \in Threads :
        \/ ThreadTest(t)
        \/ ThreadLookup(t)
        \/ ThreadCall(t)
        \/ ThreadRule(t)
        \/ ThreadReturn(t)

SpecThreads == InitThreads /\ [][NextThreads]_vars

-----------------------------------------------------------------------------
(* The rules and validators.py on chosen numbers: a caller makes one call  *)
(* with a number built for one country's format.                           *)

\* At most this many characters are appended to a number.
MaxExtra == 2

\* The characters appended: a digit and a letter.
ExtraAlphabet == {"0", "A"}

RECURSIVE ExtrasOfLen(_)
ExtrasOfLen(n) ==
    IF n = 0 THEN {<<>>}
    ELSE {Append(s, c) : s \in ExtrasOfLen(n - 1), c \in ExtraAlphabet}

Extras == UNION {ExtrasOfLen(n) : n \in 1..MaxExtra}

\* A Latvian number of the form 32 and nine digits.
Latvian32 ==
    [country |-> LV, body |-> <<"3","2","0","0","0","0","0","0","0","0","0">>]

\* Each example with characters appended, for its own country.
Overlong ==
    {<<e.country, e.body \o x>> : e \in Examples \cup {Latvian32}, x \in Extras}

\* A Bulgarian number of nine digits that the rule accepts.
Bulgarian9 == <<"1","7","5","0","7","4","7","5","2">>

\* Bulgarian numbers: of ten digits with a date, of nine digits with each
\* pair of last digits, and some that are too short, too long, not all
\* digits, or written with the prefix and a space.
BgNumbers ==
    BgDated
    \cup TailVariants(Bulgarian9, 2)
    \cup {Take(Bulgarian9, 8), Bulgarian9 \o <<"0", "0">>,
          Append(Bulgarian9, "A"), Append(Take(Bulgarian9, 8), "A"),
          Append(Take(Bulgarian9, 8), SuperscriptTwo),
          BG \o <<" ">> \o Bulgarian9}

\* A Croatian number that the rule accepts.
Croatian11 == <<"7","2","1","1","7","9","3","7","6","4","6">>

\* Croatian numbers: each pair of last digits; and the accepted number with
\* the prefix, followed by a newline or a space, with the prefix in lower
\* case, too short, too long and not all digits.
HrNumbers ==
    TailVariants(Croatian11, 2)
    \cup {HR \o s : s \in TailVariants(Croatian11, 1)}
    \cup {Append(Croatian11, "\n"), HR \o Append(Croatian11, "\n"),
          Append(Croatian11, " "), Croatian11 \o <<"\n", "\n">>,
          Lower(HR) \o Croatian11, Take(Croatian11, 10),
          Append(Croatian11, "6"), Append(Take(Croatian11, 10), "A"),
          Append(Take(Croatian11, 10), SuperscriptTwo)}

\* The days and months tried in a Latvian number that holds a date: the ends
\* of 01-31 and 01-12, and what lies next to them.
LvDays == {<<"0","0">>, <<"0","1">>, <<"1","5">>, <<"3","0">>, <<"3","1">>,
           <<"3","3">>}

LvMonths == {<<"0","0">>, <<"0","1">>, <<"1","1">>, <<"1","2">>, <<"1","3">>}

\* Latvian numbers of day, month, year 75, a digit and 0000.
LvDated ==
    {d \o m \o <<"7","5", c, "0","0","0","0">> :
        d \in LvDays, m \in LvMonths, c \in {"0", "1", "2", "3"}}

\* The years, months and days tried in a Czech number of nine digits: the
\* ends of 00-53, of 01-12 and 51-62, of 01-31, and what lies next to them.
CzYears == {<<"0","0">>, <<"5","3">>, <<"5","4">>, <<"9","9">>}

CzMonths == {<<"0","0">>, <<"0","1">>, <<"1","2">>, <<"1","3">>, <<"5","0">>,
             <<"5","1">>, <<"6","2">>, <<"6","3">>}

CzDays == {<<"0","0">>, <<"0","1">>, <<"3","1">>, <<"3","2">>}

\* Czech numbers of nine digits: year, month, day, 00 and each last digit.
CzDated ==
    {y \o m \o d \o <<"0","0", c>> :
        y \in CzYears, m \in CzMonths, d \in CzDays, c \in DecimalDigits}

\* The countries whose rule reduces a weighted sum modulo 11 and treats a
\* remainder in its own way, the check digit being the last character.
SentinelCountries == {PL, EL, PT, SI}

\* The examples of those countries with each triple of last digits, and
\* the Dutch example with each eighth and ninth digit, the ninth being its
\* check digit.
SentinelPairs ==
    UNION {{<<e.country, s>> : s \in TailVariants(e.body, 3)}
              : e \in {x \in Examples : x.country \in SentinelCountries}}
    \cup UNION {{<<e.country, s \o Drop(e.body, 9)>>
                    : s \in TailVariants(Take(e.body, 9), 2)}
                  : e \in {x \in Examples : x.country = NL}}

\* The ways a number is written for a rule that matches the raw input:
\* bare, with the prefix, with a final newline, with both, with two
\* newlines, with a final space, with the prefix in lower case, without its
\* last character, with one more digit and with a letter for its last digit.
Written(country_code, s) ==
    {s, country_code \o s, Append(s, "\n"), country_code \o Append(s, "\n"),
     s \o <<"\n", "\n">>, Append(s, " "), Lower(country_code) \o s,
     Take(s, Len(s) - 1), Append(s, "0"), Append(Take(s, Len(s) - 1), "A")}

\* The Maltese and Luxembourgish examples, whose last two digits are check
\* digits, with each triple of last digits, and as Written.
TwoCheckDigitPairs ==
    UNION {{<<e.country, s>> : s \in TailVariants(e.body, 3)
                                    \cup Written(e.country, e.body)}
              : e \in {x \in Examples : x.country \in {MT, LU}}}

\* A Portuguese number that starts with 0 and whose check digit matches.
PortugueseZeroLed == <<"0","9","7","1","7","7","9","7","0">>

\* Portuguese numbers: the examples as Forms and Spaced write them and with
\* each pair of last digits, the number starting with 0 with each pair of
\* last digits and with a last character that int() rejects, and the short
\* strings.
PtNumbers ==
    UNION {Forms(e) \cup {Spaced(e)} \cup TailVariants(e.body, 2)
              : e \in {x \in Examples : x.country = PT}}
    \cup TailVariants(PortugueseZeroLed, 2)
    \cup {Append(Take(PortugueseZeroLed, 8), SuperscriptTwo)}
    \cup ShortStrings

\* A Portuguese number that both validators accept.
Portuguese9 == <<"9","8","0","4","0","5","3","1","9">>

RuleCalls ==
    {[op |-> "vat_is_valid_pt", args |-> <<s>>] : s \in PtNumbers}
    \cup {[op |-> "vat_is_valid", args |-> p] :
              p \in CodeInputs \X {Portuguese9, PortugueseZeroLed, <<>>}}
    \cup
    {[op |-> "validate_vat", args |-> p] :
        p \in Overlong \cup {<<BG, s>> : s \in BgNumbers}
                       \cup {<<HR, s>> : s \in HrNumbers}
                       \cup {<<LV, s>> : s \in LvDated}
                       \cup {<<CZ, s>> : s \in CzDated}
                       \cup SentinelPairs
                       \cup TwoCheckDigitPairs}

InitRules ==
    /\ pc = "ready"
    /\ call \in RuleCalls
    /\ outcome = NoOutcome
    /\ evaluated = <<>>
    /\ requests = <<>>
    /\ rules = EU_COUNTRY_CODES
    /\ codes = EU_COUNTRY_CODES
    /\ previous = NoOutcome
    /\ calls = 1
    /\ threads = <<>>
    /\ frames = <<>>

CallVatIsValidPt ==
    /\ pc = "ready"
    /\ call.op = "vat_is_valid_pt"
    /\ outcome' = vat_is_valid_pt(call.args[1])
    /\ pc' = "done"
    /\ UNCHANGED <<call, evaluated, requests, rules, codes, previous, calls, threads, frames>>

CallVatIsValid ==
    /\ pc = "ready"
    /\ call.op = "vat_is_valid"
    /\ outcome' = vat_is_valid(call.args[1], call.args[2])
    /\ pc' = "done"
    /\ UNCHANGED <<call, evaluated, requests, rules, codes, previous, calls, threads, frames>>

NextRules ==
    \/ CallValidateVat
    \/ CallVatIsValidPt
    \/ CallVatIsValid

SpecRules == InitRules /\ [][NextRules]_vars

-----------------------------------------------------------------------------
(* The claims.                                                             *)

\* A validate_vat call has run to its end.
ValidateVatDone == pc = "done" /\ call.op = "validate_vat"

\* str.isalnum() of one character: a letter or a digit.
IsAlnum(c) == c \in UpperLetters \cup LowerLetters \cup DecimalDigits
                    \cup {SuperscriptTwo}

\* s without its whitespace and punctuation (spaces, hyphens, dots).
RECURSIVE WithoutSeparators(_)
WithoutSeparators(s) ==
    IF Len(s) = 0 THEN <<>>
    ELSE (IF s[1] \in Whitespace \cup Punctuation THEN <<>> ELSE <<s[1]>>)
         \o WithoutSeparators(Drop(s, 1))

\* s without the characters that are neither letters nor digits.
RECURSIVE OnlyAlnum(_)
OnlyAlnum(s) ==
    IF Len(s) = 0 THEN <<>>
    ELSE (IF IsAlnum(s[1]) THEN <<s[1]>> ELSE <<>>) \o OnlyAlnum(Drop(s, 1))

\* The bare example numbers, without country code or separator.
Bodies == {e.body : e \in Examples}

\* C1: validate_vat raises ValueError exactly when country_code is not one of
\* the 28 registry keys, whatever the vat string, and then no country rule is
\* evaluated.
C1_ValueErrorIffUnknownCode ==
    ValidateVatDone =>
        /\ RegistryKeys = {AT, BE, BG, CY, CZ, DE, DK, EE, EL, ES, FI, FR, GB, HR,
                           HU, IE, IT, LT, LU, LV, MT, NL, PL, PT, RO, SE, SI, SK}
        /\ (outcome = Raise("ValueError")) <=> (call.args[1] \notin RegistryKeys)
        /\ (call.args[1] \notin RegistryKeys) => (evaluated = <<>>)

\* C2: for every supported country code and every input string validate_vat
\* returns True or False; it never raises.
C2_SupportedCodeNeverRaises ==
    (ValidateVatDone /\ call.args[1] \in RegistryKeys) =>
        (outcome.kind = "return" /\ outcome.value \in BOOLEAN)

\* C3: validate_vat gives the same result for a string and for that string
\* with all whitespace and punctuation (spaces, hyphens, dots) removed.
C3_SeparatorsNeverMatter ==
    (ValidateVatDone /\ call.args[1] \in RegistryKeys) =>
        (outcome = validate_vat(call.args[1], WithoutSeparators(call.args[2])))

\* C4: for every supported code j and body b, validate_vat(j, b),
\* validate_vat(j, j + b) and validate_vat(j, lowercase(j) + b) are the same.
C4_PrefixOptionalAnyCase ==
    (ValidateVatDone /\ call.args[1] \in RegistryKeys /\ call.args[2] \in Bodies) =>
        /\ outcome = validate_vat(call.args[1], call.args[1] \o call.args[2])
        /\ outcome = validate_vat(call.args[1], Lower(call.args[1]) \o call.args[2])

\* The position of a country code in the registry.
RegistryIndex(j) == CHOOSE k \in 1..Len(EU_COUNTRY_CODES) : EU_COUNTRY_CODES[k] = j

\* C5: countries_where_vat_is_valid never raises and returns exactly the codes
\* j for which validate_vat(j, raw) is True, each at most once, in the order
\* of the registry.
C5_ExactlyTheValidCountries ==
    (pc = "done" /\ call.op = "countries_where_vat_is_valid") =>
        /\ outcome.kind = "return"
        /\ \A i \in 1..Len(outcome.value) : outcome.value[i] \in RegistryKeys
        /\ \A j \in RegistryKeys :
              (\E i \in 1..Len(outcome.value) : outcome.value[i] = j)
              <=> (validate_vat(j, call.args[1]) = Return(TRUE))
        /\ \A i, k \in 1..Len(outcome.value) :
              i < k => RegistryIndex(outcome.value[i]) < RegistryIndex(outcome.value[k])

\* C6: utils.sanitize_vat is idempotent: sanitizing its result again returns
\* the same string.
C6_SanitizeIdempotent ==
    (pc = "done" /\ call.op = "sanitize_vat") =>
        (outcome.kind = "return" /\ sanitize_vat(outcome.value) = outcome)

\* C7: utils.sanitize_vat never raises and returns its input with a leading
\* country-code prefix (in any letter case) and every character that is not a
\* letter or a digit removed, so the result holds only letters and digits.
C7_SanitizeLeavesLettersAndDigits ==
    (pc = "done" /\ call.op = "sanitize_vat") =>
        /\ outcome.kind = "return"
        /\ \A i \in 1..Len(outcome.value) : IsAlnum(outcome.value[i])
        /\ outcome.value =
              OnlyAlnum(IF \E j \in RegistryKeys : StartsWithI(call.args[1], j)
                        THEN Drop(call.args[1], 2) ELSE call.args[1])

\* C8: sanitizers.sanitize_vat returns a string for every code of
\* EU_COUNTRY_CODES and every raw string, and raises ValueError only for a
\* code outside EU_COUNTRY_CODES.
C8_SanitizerTotalOnSupportedCodes ==
    (pc = "done" /\ call.op = "sanitizers.sanitize_vat") =>
        IF call.args[1] \in RegistryKeys
        THEN outcome.kind = "return"
        ELSE outcome = Raise("ValueError")

\* C9: check_vat raises ValueError when the country code is unknown or the
\* sanitized VAT is empty, and does so before any request is sent.
C9_CheckVatRejectsBeforeRequest ==
    (/\ pc = "done"
     /\ call.op = "check_vat"
     /\ \/ call.args[1] \notin RegistryKeys
        \/ sanitizers_sanitize_vat(call.args[1], call.args[2]) = Return(<<>>))
    => (outcome = Raise("ValueError") /\ requests = <<>>)

\* The inputs of the documented Portuguese examples.
PT980405319 == <<"P","T","9","8","0","4","0","5","3","1","9">>

PT_980_405_319 == <<"P","T","-","9","8","0"," ","4","0","5"," ","3","1","9">>

N80405319 == <<"8","0","4","0","5","3","1","9">>

PT502757192 == <<"P","T","5","0","2","7","5","7","1","9","2">>

\* C10: validate_vat('PT', 'PT980405319') and validate_vat('PT',
\* 'PT-980 405 319') are True; validate_vat('PT', '80405319') (wrong length)
\* and validate_vat('PT', 'PT502757192') (wrong check digit) are False.
C10_PortugueseExamples ==
    (ValidateVatDone /\ call.args[1] = PT) =>
        /\ (call.args[2] = PT980405319) => (outcome = Return(TRUE))
        /\ (call.args[2] = PT_980_405_319) => (outcome = Return(TRUE))
        /\ (call.args[2] = N80405319) => (outcome = Return(FALSE))
        /\ (call.args[2] = PT502757192) => (outcome = Return(FALSE))

\* The four documented Portuguese calls are made and have returned.
C10_Witness ==
    /\ ValidateVatDone
    /\ call.args[1] = PT
    /\ call.args[2] \in {PT980405319, PT_980_405_319, N80405319, PT502757192}
    /\ outcome.kind = "return"

\* s with its last character replaced by c.
WithLast(s, c) == Take(s, Len(s) - 1) \o <<c>>

\* The documented Danish example, with and without its prefix.
DK13585628 == <<"D","K","1","3","5","8","5","6","2","8">>

N13585628 == <<"1","3","5","8","5","6","2","8">>

\* C11: validate_vat('DK', 'DK13585628') is True, and replacing only the
\* trailing digit of a valid Danish number by any other digit makes
\* validate_vat('DK', ...) return False.
C11_DanishTrailingDigit ==
    (ValidateVatDone /\ call.args[1] = DK) =>
        /\ (call.args[2] = DK13585628) => (outcome = Return(TRUE))
        /\ (outcome = Return(TRUE)) =>
              \A d \in DecimalDigits \ {call.args[2][Len(call.args[2])]} :
                  validate_vat(DK, WithLast(call.args[2], d)) = Return(FALSE)

\* A valid Danish number other than the documented one has been validated.
C11_Witness ==
    /\ ValidateVatDone
    /\ call.args[1] = DK
    /\ call.args[2] \in TailVariants(N13585628, MaxTail) \ {N13585628}
    /\ outcome = Return(TRUE)

\* The Croatian number the documentation quotes, and the same number with
\* the check digit the rotating product gives.
N57584166468 == <<"5","7","5","8","4","1","6","6","4","6","8">>

N57584166460 == <<"5","7","5","8","4","1","6","6","4","6","0">>

\* C12: validate_vat('HR', '57584166468') returns True.
C12_CroatianExampleAccepted ==
    (ValidateVatDone /\ call.args[1] = HR /\ call.args[2] = N57584166468) =>
        (outcome = Return(TRUE))

\* C12, amended: validate_vat('HR', '57584166468') returns False, because the
\* rotating-product check gives this number the check digit 0; the number
\* '57584166460' is the one accepted.
C12_CroatianExampleRejected ==
    (ValidateVatDone /\ call.args[1] = HR) =>
        /\ (call.args[2] = N57584166468) => (outcome = Return(FALSE))
        /\ (call.args[2] = N57584166460) => (outcome = Return(TRUE))

\* The quoted Croatian number has been validated.
C12_Witness ==
    /\ ValidateVatDone
    /\ call.args[1] = HR
    /\ call.args[2] = N57584166468
    /\ outcome.kind = "return"

\* Whether s ends in a character that can be a check character.
EndsInCheckChar(s) ==
    Len(s) > 0 /\ s[Len(s)] \in DecimalDigits \cup UpperLetters

\* s with its final character incremented by 1: a digit modulo 10, a letter
\* modulo the base of the country's check alphabet (23 in Ireland, else 26).
IncLast(country_code, s) ==
    LET c == s[Len(s)]
        base == IF country_code = IE THEN 23 ELSE 26
    IN WithLast(s, IF c \in DecimalDigits
                   THEN DigitSeq[((DigitVal(c) + 1) % 10) + 1]
                   ELSE UpperSeq[((LetterIndex(c) + 1) % base) + 1])

\* The countries the documentation gives a checksum family.
ChecksumFamilies ==
    {BE, DK, FI, EL, HU, PL, PT, SI, AT, IT, SE, HR, BG, CY, IE, NL, LU, MT, SK}

\* The countries whose rule compares the final character with the one value
\* computed from the characters before it.
SingleCheckCountries ==
    {AT, BE, CY, DE, DK, EE, EL, FI, HR, HU, IT, LT, LU, MT, PL, PT, RO, SI, SK}

\* C13: for every checksum-based country and every VAT validate_vat accepts,
\* incrementing the final check digit by 1 (modulo the country's base) gives
\* a VAT that validate_vat rejects.
C13_IncrementedCheckDigitRejected ==
    (/\ ValidateVatDone
     /\ call.args[1] \in ChecksumFamilies
     /\ outcome = Return(TRUE)
     /\ EndsInCheckChar(call.args[2]))
    => (validate_vat(call.args[1], IncLast(call.args[1], call.args[2])) = Return(FALSE))

\* C13, amended: the property holds for the countries whose rule compares the
\* final character with a single computed value (AT, BE, CY, DE, DK, EE, EL,
\* FI, HR, HU, IT, LT, LU, MT, PL, PT, RO, SI, SK): an accepted VAT of theirs
\* with its final character incremented is rejected.
C13_SingleCheckIncrementRejected ==
    (/\ ValidateVatDone
     /\ call.args[1] \in SingleCheckCountries
     /\ outcome = Return(TRUE)
     /\ EndsInCheckChar(call.args[2]))
    => (validate_vat(call.args[1], IncLast(call.args[1], call.args[2])) = Return(FALSE))

\* An accepted VAT whose final digit is 9, so that the increment wraps to 0.
C13_Witness ==
    /\ ValidateVatDone
    /\ call.args[1] \in SingleCheckCountries
    /\ outcome = Return(TRUE)
    /\ Len(call.args[2]) > 0
    /\ call.args[2][Len(call.args[2])] = "9"

\* C14: countries_where_vat_is_valid('PT980405319') includes 'PT' and
\* excludes every country whose format cannot match this string's length or
\* shape, which is every country other than Portugal.
C14_OnlyPortugalForPortugueseNumber ==
    (/\ pc = "done"
     /\ call.op = "countries_where_vat_is_valid"
     /\ call.args[1] = PT980405319)
    => /\ outcome.kind = "return"
       /\ \E i \in 1..Len(outcome.value) : outcome.value[i] = PT
       /\ \A i \in 1..Len(outcome.value) : outcome.value[i] = PT

\* The countries where 'PT980405319' is valid have been listed.
C14_Witness ==
    /\ pc = "done"
    /\ call.op = "countries_where_vat_is_valid"
    /\ call.args[1] = PT980405319
    /\ outcome.kind = "return"
    /\ Len(evaluated) = Len(EU_COUNTRY_CODES)

\* The documented format of a number of a format-only country, without prefix.
FormatOf(country_code, b) ==
    CASE country_code = FR -> AllDigits(b, 11)
      [] country_code = DE -> AllDigits(b, 9)
      [] country_code = SE -> AllDigits(b, 12)
      [] country_code = ES -> /\ Len(b) = 9
                              /\ IsWordChar(b[1])
                              /\ AllDigits(SubSeq(b, 2, 8), 7)
                              /\ IsWordChar(b[9])
      [] country_code = GB -> \/ AllDigits(b, 9)
                              \/ AllDigits(b, 12)
                              \/ /\ Len(b) = 5
                                 /\ b[1] \in UpperLetters
                                 /\ b[2] \in UpperLetters
                                 /\ AllDigits(SubSeq(b, 3, 5), 3)
      [] OTHER -> FALSE

\* Whether s, with or without the country's prefix, has the country's format.
MatchesFormat(country_code, s) ==
    \/ FormatOf(country_code, s)
    \/ StartsWith(s, country_code) /\ FormatOf(country_code, Drop(s, 2))

\* validate_vat is format-only for the call made: an input of the country's
\* format is accepted, and an input of the same shape (the last character
\* replaced by one of its kind) gets the same result.
FormatOnlyHere ==
    /\ MatchesFormat(call.args[1], call.args[2]) => (outcome = Return(TRUE))
    /\ \A t \in TailVariants(call.args[2], 1) :
          validate_vat(call.args[1], t) = outcome

\* C15: France, Germany, Spain, Sweden and the United Kingdom are
\* format-only: validate_vat returns True for every input that matches the
\* country's format, no checksum is computed, and two inputs of the same
\* shape get the same result.
C15_FiveFormatOnlyCountries ==
    (ValidateVatDone /\ call.args[1] \in {FR, DE, ES, SE, GB}) => FormatOnlyHere

\* C15, amended: Spain and the United Kingdom are format-only; France,
\* Germany and Sweden also compute a checksum and are not.
C15_SpainAndUnitedKingdomFormatOnly ==
    (ValidateVatDone /\ call.args[1] \in {ES, GB}) => FormatOnlyHere

\* A Spanish or British number of the right format, other than the examples,
\* has been validated.
C15_Witness ==
    /\ ValidateVatDone
    /\ call.args[1] \in {ES, GB}
    /\ MatchesFormat(call.args[1], call.args[2])
    /\ call.args[2] \notin Bodies
    /\ outcome = Return(TRUE)

\* Whether the sanitized number v has a zero where the country forbids it.
HasForbiddenZero(country_code, v) ==
    CASE country_code = BE -> \/ Len(v) = 10 /\ v[2] = "0"
                              \/ Len(v) = 9 /\ v[1] = "0"
      [] country_code = DK -> Len(v) = 8 /\ v[1] = "0"
      [] country_code = PT -> Len(v) = 9 /\ v[1] = "0"
      [] OTHER -> FALSE

\* C16: validate_vat returns False, whatever the check digits, for a Belgian
\* number whose second digit (in 10-digit form) is 0 and for a Danish or
\* Portuguese number whose first digit is 0; the number is rejected before
\* the checksum is computed, so not even a digit int() rejects makes it raise.
C16_LeadingZeroRejected ==
    (/\ ValidateVatDone
     /\ call.args[1] \in {BE, DK, PT}
     /\ HasForbiddenZero(call.args[1], re_sub(<<call.args[1]>>, call.args[2])))
    => (outcome = Return(FALSE))

\* A Portuguese number with first digit 0 and a matching check digit has been
\* validated.
C16_Witness ==
    /\ ValidateVatDone
    /\ call.args[1] = PT
    /\ HasForbiddenZero(PT, call.args[2])
    /\ AllDigits(call.args[2], 9)
    /\ calc_check_digit_pt(Take(call.args[2], 8)) = DigitVal(call.args[2][9])
    /\ outcome = Return(FALSE)

\* The months a Bulgarian personal number may hold: 01-12, or the same with
\* 20 or 40 added.
PlausibleMonths == (1..12) \cup (21..32) \cup (41..52)

\* C17: the physical-person branch of validate_vat_bg accepts a number of ten
\* digits exactly when the person check digit matches, the month (digits 3-4)
\* is in 01-12, 21-32 or 41-52 and the day (digits 5-6) is in 01-31.
C17_BulgarianPersonDate ==
    (ValidateVatDone /\ call.args[1] = BG /\ AllDigits(call.args[2], 10)) =>
        (is_person_bg(call.args[2])
         <=> /\ calc_check_digit_person(Take(call.args[2], 9))
                  = DigitVal(call.args[2][10])
             /\ int(SubSeq(call.args[2], 3, 4)) \in PlausibleMonths
             /\ int(SubSeq(call.args[2], 5, 6)) \in 1..31)

\* C18: 'GR' is an accepted alias of 'EL': validate_vat('GR', s) does not
\* raise and returns what validate_vat('EL', s) returns, and a Greek number
\* prefixed with 'GR' validates like the same number prefixed with 'EL'.
C18_GreekAlias ==
    /\ (ValidateVatDone /\ call.args[1] = GR) =>
          (outcome.kind = "return" /\ outcome = validate_vat(EL, call.args[2]))
    /\ (ValidateVatDone /\ call.args[1] = EL /\ StartsWith(call.args[2], EL)) =>
          (outcome = validate_vat(EL, GR \o Drop(call.args[2], 2)))

\* C19: validate_vat_be accepts a Belgian number of 10 digits starting with 0
\* or 1 (the second digit not 0) whose last two digits equal 97 minus (the
\* first eight digits mod 97), and accepts the old form of 9 digits exactly
\* when the same number with a '0' prepended is accepted.
C19_BelgianNumbers ==
    (ValidateVatDone /\ call.args[1] = BE) =>
        /\ (/\ AllDigits(call.args[2], 10)
            /\ call.args[2][1] \in {"0", "1"}
            /\ call.args[2][2] # "0"
            /\ 97 - (int(Take(call.args[2], 8)) % 97) = int(Drop(call.args[2], 8)))
           => (outcome = Return(TRUE))
        /\ AllDigits(call.args[2], 9) =>
              (outcome = validate_vat(BE, <<"0">> \o call.args[2]))

\* C20: whatever calls of validate_vat, countries_where_vat_is_valid and
\* sanitize_vat are made, raising ones included, every step leaves EU_RULES
\* and EU_COUNTRY_CODES with the entries and the order of start-up, a call
\* leaves its arguments as they were, and a call repeated with the same
\* arguments has the same outcome as before.
C20_PureAndReadOnly ==
    [][ /\ rules' = EU_COUNTRY_CODES
        /\ codes' = EU_COUNTRY_CODES
        /\ (pc = "ready") => (call' = call)
        /\ (pc = "ready" /\ previous.kind # "none" /\ call.op \in PureOps)
              => (outcome' = previous) ]_vars

\* A validate_vat call that raised has been made a second time.
C20_Witness ==
    /\ pc = "done"
    /\ calls = 2
    /\ call.op = "validate_vat"
    /\ previous = Raise("ValueError")
    /\ outcome.kind # "none"

-----------------------------------------------------------------------------
\* C21: when several threads call validate_vat at the same time, under every
\* interleaving each call gives the result it gives when run alone: while a
\* thread is inside its rule the rule's parameter is the thread's own
\* argument, the result of its rule is that of the rule applied to that
\* argument, a finished call has the outcome of validate_vat run alone, and
\* the registry keeps all its entries.
C21_ConcurrentCallsAsAlone ==
    pc = "threads" =>
        /\ rules = EU_COUNTRY_CODES
        /\ \A t \in Threads :
              /\ threads[t].pc = "rule" =>
                    frames[frame_of(t)] = threads[t].call[2]
              /\ threads[t].pc \in {"return", "done"} =>
                    threads[t].outcome
                      = validate_vat(threads[t].call[1], threads[t].call[2])

\* Two calls of the Portuguese rule are in progress at once, neither has
\* returned to its caller, and the rule has accepted the number of one
\* thread and rejected the number of the other.
C21_Witness ==
    /\ pc = "threads"
    /\ threads[1].pc = "return"
    /\ threads[2].pc = "return"
    /\ threads[1].call[1] = PT
    /\ threads[2].call[1] = PT
    /\ threads[1].outcome = Return(TRUE)
    /\ threads[2].outcome = Return(FALSE)

-----------------------------------------------------------------------------
\* The number of characters of the longest number a country's format allows,
\* without the prefix.
LongestFormat(country_code) ==
    CASE country_code \in {DK, FI, HU, LU, MT, SI} -> 8
      [] country_code \in {AT, CY, DE, EE, EL, ES, IE, PT} -> 9
      [] country_code \in {BE, BG, CZ, PL, RO, SK} -> 10
      [] country_code \in {HR, FR, IT, LV} -> 11
      [] country_code \in {GB, LT, NL, SE} -> 12

\* C22: for every country, validate_vat returns False for an input whose
\* sanitized form (prefix and separators removed) has more characters than
\* the longest number the country's format allows.
C22_OverlongRejected ==
    (/\ ValidateVatDone
     /\ call.args[1] \in RegistryKeys
     /\ Len(sanitize_vat_xx(call.args[1], call.args[2]))
          > LongestFormat(call.args[1]))
    => outcome = Return(FALSE)

-----------------------------------------------------------------------------
\* C23: validate_vat_bg returns False for a sanitized input that is not all
\* digits or has neither 9 nor 10 characters; for 9 digits the result is
\* whether the legal-entity check digit matches; for 10 digits the result is
\* whether the number is a physical person's (check digit and plausible date
\* of birth: month 01-12, 21-32 or 41-52, day 01-31), a foreigner's (check
\* digit) or a miscellaneous one (check digit, 11 meaning 0 and 10 matching
\* nothing).
C23_BulgarianBranches ==
    (ValidateVatDone /\ call.args[1] = BG) =>
        LET s == sanitize_vat_xx(BG, call.args[2])
            last == DigitVal(s[Len(s)])
        IN /\ (~(AllDigits(s, 9) \/ AllDigits(s, 10))) => outcome = Return(FALSE)
           /\ AllDigits(s, 9) =>
                 outcome = Return(calc_check_digit_legal_entity(Take(s, 8)) = last)
           /\ AllDigits(s, 10) =>
                 outcome = Return(
                   \/ /\ calc_check_digit_person(Take(s, 9)) = last
                      /\ int(SubSeq(s, 3, 4)) \in PlausibleMonths
                      /\ int(SubSeq(s, 5, 6)) \in 1..31
                   \/ calc_check_digit_foreigner(Take(s, 9)) = last
                   \/ calc_check_digit_misc(Take(s, 9)) = last)

-----------------------------------------------------------------------------
\* The rotating product as C24 words it: from product, each digit d gives
\* s = (d + product) mod 10, s = 0 replaced by 10, and product = (2 * s)
\* mod 11.
RECURSIVE RotatingProduct(_, _)
RotatingProduct(product, digits) ==
    IF Len(digits) = 0 THEN product
    ELSE LET s == (DigitVal(digits[1]) + product) % 10
         IN RotatingProduct((2 * (IF s = 0 THEN 10 ELSE s)) % 11, Drop(digits, 1))

\* Whether b is 11 digits for which (product + last_digit) mod 10 = 1.
RotatingCheck(b) ==
    /\ AllDigits(b, 11)
    /\ (RotatingProduct(10, Take(b, 10)) + DigitVal(b[11])) % 10 = 1

\* s without the prefix 'HR', if it has it.
WithoutHR(s) == IF StartsWith(s, HR) THEN Drop(s, 2) ELSE s

\* The last digits validate_vat accepts after the ten digits of body.
AcceptedLast(body) ==
    {d \in DecimalDigits : validate_vat(HR, Append(body, d)) = Return(TRUE)}

\* C24: validate_vat_hr returns True iff the input is 11 digits, optionally
\* prefixed by 'HR', that pass the rotating-product check; and for every body
\* of ten digits exactly one last digit is accepted.
C24_CroatianRotatingProduct ==
    (ValidateVatDone /\ call.args[1] = HR) =>
        /\ outcome = Return(RotatingCheck(WithoutHR(call.args[2])))
        /\ AllDigits(call.args[2], 11) =>
              Cardinality(AcceptedLast(Take(call.args[2], 10))) = 1

\* C24, amended: the input may also end in one newline after the 11 digits,
\* which the '$' of the pattern allows.
C24_CroatianRotatingProductNewline ==
    (ValidateVatDone /\ call.args[1] = HR) =>
        /\ outcome = Return(RotatingCheck(WithoutHR(DollarBody(call.args[2]))))
        /\ AllDigits(call.args[2], 11) =>
              Cardinality(AcceptedLast(Take(call.args[2], 10))) = 1

\* A Croatian number with the prefix 'HR' and a final newline has been
\* accepted.
C24_Witness ==
    /\ ValidateVatDone
    /\ call.args[1] = HR
    /\ StartsWith(call.args[2], HR)
    /\ call.args[2][Len(call.args[2])] = "\n"
    /\ outcome = Return(TRUE)

-----------------------------------------------------------------------------
\* Whether s is a Latvian number of the date-encoded variant and of no other
\* variant: 11 digits, the seventh 0, 1 or 2, the first below 4, not
\* starting with 32.
LatvianDateVariant(s) ==
    /\ AllDigits(s, 11)
    /\ s[7] \in {"0", "1", "2"}
    /\ s[1] \in {"0", "1", "2", "3"}
    /\ SubSeq(s, 1, 2) # <<"3", "2">>

\* C25: validate_vat_lv accepts a Latvian number of the date-encoded variant
\* exactly when its day (digits 1-2) is in 01-31 and its month (digits 3-4)
\* is in 01-12.
C25_LatvianDate ==
    (ValidateVatDone /\ call.args[1] = LV /\ LatvianDateVariant(call.args[2])) =>
        outcome = Return(/\ int(SubSeq(call.args[2], 1, 2)) \in 1..31
                         /\ int(SubSeq(call.args[2], 3, 4)) \in 1..12)

-----------------------------------------------------------------------------
\* Whether the date in a Czech number of nine digits is plausible: year
\* 00-53, month 01-12 or 51-62, day 01-31.
CzPlausibleDate(s) ==
    /\ int(SubSeq(s, 1, 2)) \in 0..53
    /\ int(SubSeq(s, 3, 4)) \in (1..12) \cup (51..62)
    /\ int(SubSeq(s, 5, 6)) \in 1..31

\* Whether the ninth digit of s is the check digit of its digits 2 to 8:
\* the entry of 8, 7, 6, 5, 4, 3, 2, 1, 0, 9, 8 at the distance from their
\* weighted sum to the next multiple of 11 above it.
CzNinthDigitChecks(s) ==
    LET a1 == WeightedSum(<<8, 7, 6, 5, 4, 3, 2>>, SubSeq(s, 2, 8))
    IN DigitVal(s[9]) = <<8, 7, 6, 5, 4, 3, 2, 1, 0, 9, 8>>[11 - (a1 % 11)]

-----------------------------------------------------------------------------
\* The outcome of validate_vat for body followed by each last digit.
OutcomesOfLast(country_code, body) ==
    [d \in DecimalDigits |-> validate_vat(country_code, Append(body, d))]

\* No last digit makes body valid.
NoLastDigitAccepted(country_code, body) ==
    \A d \in DecimalDigits :
        OutcomesOfLast(country_code, body)[d] = Return(FALSE)

\* The last digit 0, and no other, makes body valid.
OnlyZeroAccepted(country_code, body) ==
    \A d \in DecimalDigits :
        OutcomesOfLast(country_code, body)[d] = Return(d = "0")

\* C27: a weighted sum with remainder 10 modulo 11 makes a Polish or Dutch
\* number invalid for every check digit; a computed check value of 10 gives
\* the check digit 0 for Greece and Portugal; for Slovenia a computed value
\* of 11 is rejected and 10 gives the check digit 0.
C27_RemainderSentinels ==
    ValidateVatDone =>
        LET code == call.args[1]
            s == call.args[2]
        IN /\ (code = PL /\ AllDigits(s, 10)
               /\ WeightedSum(<<6, 5, 7, 2, 3, 4, 5, 6, 7>>, s) % 11 = 10)
              => NoLastDigitAccepted(PL, Take(s, 9))
           /\ (code = NL /\ NlBody(s)
               /\ WeightedSum(<<9, 8, 7, 6, 5, 4, 3, 2>>, s) % 11 = 10)
              => \A d \in DecimalDigits :
                    validate_vat(NL, Take(s, 8) \o <<d>> \o Drop(s, 9))
                      = Return(FALSE)
           /\ (code = EL /\ AllDigits(s, 9)
               /\ WeightedSum(<<256, 128, 64, 32, 16, 8, 4, 2>>, s) % 11 = 10)
              => OnlyZeroAccepted(EL, Take(s, 8))
           /\ (code = PT /\ AllDigits(s, 9) /\ s[1] # "0"
               /\ 11 - (WeightedSum(<<9, 8, 7, 6, 5, 4, 3, 2>>, s) % 11) = 10)
              => OnlyZeroAccepted(PT, Take(s, 8))
           /\ (code = SI /\ AllDigits(s, 8)
               /\ 11 - (WeightedSum(<<8, 7, 6, 5, 4, 3, 2>>, s) % 11) = 11)
              => NoLastDigitAccepted(SI, Take(s, 7))
           /\ (code = SI /\ AllDigits(s, 8)
               /\ 11 - (WeightedSum(<<8, 7, 6, 5, 4, 3, 2>>, s) % 11) = 10)
              => OnlyZeroAccepted(SI, Take(s, 7))

\* A Polish number whose weighted sum has remainder 10 has been rejected
\* with the check digit 0.
C27_Witness ==
    /\ ValidateVatDone
    /\ call.args[1] = PL
    /\ AllDigits(call.args[2], 10)
    /\ WeightedSum(<<6, 5, 7, 2, 3, 4, 5, 6, 7>>, call.args[2]) % 11 = 10
    /\ call.args[2][10] = "0"
    /\ outcome = Return(FALSE)

-----------------------------------------------------------------------------
\* s without the prefix, if it has it.
WithoutPrefix(country_code, s) ==
    IF StartsWith(s, country_code) THEN Drop(s, 2) ELSE s

\* Whether b is 8 digits whose last two, as a number, are 37 minus the
\* weighted sum of the first six modulo 37.
MalteseCheck(b) ==
    /\ AllDigits(b, 8)
    /\ int(Drop(b, 6)) = 37 - (WeightedSum(<<3, 4, 6, 7, 8, 9>>, b) % 37)

\* Whether b is 8 digits whose last two, as a number, are the first six as
\* a number modulo 89.
LuxembourgCheck(b) ==
    /\ AllDigits(b, 8)
    /\ int(Drop(b, 6)) = int(Take(b, 6)) % 89

\* The pairs of check digits validate_vat accepts after the six digits body.
AcceptedPairs(country_code, body) ==
    {p \in DecimalDigits \X DecimalDigits :
        validate_vat(country_code, body \o <<p[1], p[2]>>) = Return(TRUE)}

\* For the body of six digits of the call, stated once per body, exactly
\* one pair of check digits is accepted.
OnePairAccepted ==
    (AllDigits(call.args[2], 8) /\ Drop(call.args[2], 6) = <<"0", "0">>) =>
        Cardinality(AcceptedPairs(call.args[1], Take(call.args[2], 6))) = 1

\* C28: validate_vat_mt returns True iff the input is 8 digits, optionally
\* prefixed by 'MT', whose last two digits are 37 - (3*c1 + 4*c2 + 6*c3 +
\* 7*c4 + 8*c5 + 9*c6) mod 37; validate_vat_lu returns True iff the input is
\* 8 digits, optionally prefixed, whose last two equal the first six mod 89;
\* in both, every body of six digits has exactly one accepted pair.
C28_MalteseAndLuxembourgCheckDigits ==
    /\ (ValidateVatDone /\ call.args[1] = MT) =>
          /\ outcome = Return(MalteseCheck(WithoutPrefix(MT, call.args[2])))
          /\ OnePairAccepted
    /\ (ValidateVatDone /\ call.args[1] = LU) =>
          /\ outcome = Return(LuxembourgCheck(WithoutPrefix(LU, call.args[2])))
          /\ OnePairAccepted

\* C28, amended: the input may also end in one newline after the 8 digits,
\* which the '$' of the patterns allows.
C28_MalteseAndLuxembourgNewline ==
    /\ (ValidateVatDone /\ call.args[1] = MT) =>
          /\ outcome = Return(MalteseCheck(
                                WithoutPrefix(MT, DollarBody(call.args[2]))))
          /\ OnePairAccepted
    /\ (ValidateVatDone /\ call.args[1] = LU) =>
          /\ outcome = Return(LuxembourgCheck(
                                WithoutPrefix(LU, DollarBody(call.args[2]))))
          /\ OnePairAccepted

\* A Maltese number of 8 digits followed by a newline has been accepted.
C28_Witness ==
    /\ ValidateVatDone
    /\ call.args[1] = MT
    /\ Len(call.args[2]) = 9
    /\ AllDigits(Take(call.args[2], 8), 8)
    /\ Drop(call.args[2], 8) = <<"\n">>
    /\ outcome = Return(TRUE)

-----------------------------------------------------------------------------
\* C29: for every input string validators.vat_is_valid_pt gives what
\* countries.validate_vat_pt gives.
C29_PortugueseImplementationsAgree ==
    (pc = "done" /\ call.op = "vat_is_valid_pt") =>
        outcome = validate_vat_pt(call.args[1])

\* C30: validators.vat_is_valid raises ValueError for every code outside
\* EU_COUNTRY_CODES, and for every code inside it finds a validator and
\* returns a boolean without raising.
C30_VatIsValidDispatch ==
    (pc = "done" /\ call.op = "vat_is_valid") =>
        IF call.args[1] \in RegistryKeys
        THEN outcome.kind = "return" /\ outcome.value \in BOOLEAN
        ELSE outcome = Raise("ValueError")

====
